---- MODULE Spec2Model ----
(***************************************************************************)
(* Transport network analysis: graph construction from GTFS tables         *)
(* (src/src/graph_analysis/graph_builder.py) and critical-node             *)
(* vulnerability assessment (src/src/graph_analysis/critical_nodes.py).    *)
(*                                                                         *)
(* A networkx Graph is modelled as a record                                *)
(*   order : the node ids in insertion order (dict iteration order)        *)
(*   node  : node id -> attribute record                                   *)
(*   adj   : node id -> (neighbour id -> edge attribute record)            *)
(* as networkx keeps it (G._node and G._adj).                              *)
(***************************************************************************)
EXTENDS Integers, Sequences, FiniteSets, TLC

(***************************************************************************)
(* Bounds of the model.                                                    *)
(***************************************************************************)
\* rows of the stop_times table
MaxStopTimeRows == 4
\* largest sample_size argument tried
MaxSample == 1
\* calls of build_graph on one builder
MaxCalls == 2

(***************************************************************************)
(* Small helpers on sequences and sets.                                    *)
(***************************************************************************)
Range(s) == {s[i] : i \in DOMAIN s}

RECURSIVE SumSeq(_)
SumSeq(s) == IF s = <<>> THEN 0 ELSE Head(s) + SumSeq(Tail(s))

Max2(a, b) == IF a >= b THEN a ELSE b
Min2(a, b) == IF a <= b THEN a ELSE b

\* Python's None, and a value that is not None
None == <<>>
Some(v) == <<v>>

(***************************************************************************)
(* networkx.Graph primitives.                                              *)
(***************************************************************************)
NoAttrs == [k \in {} |-> k]

EmptyGraph == [order |-> <<>>, node |-> NoAttrs, adj |-> NoAttrs]

has_node(G, n) == n \in DOMAIN G.node

has_edge(G, u, v) ==
    /\ u \in DOMAIN G.adj
    /\ v \in DOMAIN G.adj[u]

\* Graph.add_node: a new node is appended to the node order; the attributes
\* of an existing node are updated in place.
add_node(G, n, attrs) ==
    IF has_node(G, n)
    THEN [G EXCEPT !.node[n] = attrs]
    ELSE [order |-> Append(G.order, n),
          node  |-> (n :> attrs) @@ G.node,
          adj   |-> (n :> NoAttrs) @@ G.adj]

\* Graph.add_edge: both end points are added as nodes when absent, and the
\* one attribute dict is stored under adj[u][v] and adj[v][u].
add_edge(G, u, v, attrs) ==
    LET G1 == IF has_node(G, u) THEN G ELSE add_node(G, u, NoAttrs)
        G2 == IF has_node(G1, v) THEN G1 ELSE add_node(G1, v, NoAttrs)
        au == (v :> attrs) @@ G2.adj[u]
        A1 == [G2.adj EXCEPT ![u] = au]
        av == (u :> attrs) @@ A1[v]
    IN  [G2 EXCEPT !.adj = [A1 EXCEPT ![v] = av]]

\* G[u][v][key] = value: the attribute dict is shared by both directions.
set_edge_attr(G, u, v, attrs) ==
    LET A1 == [G.adj EXCEPT ![u][v] = attrs]
    IN  [G EXCEPT !.adj = [A1 EXCEPT ![v][u] = attrs]]

\* Graph.degree: a self-loop counts twice.
degree(G, n) ==
    Cardinality(DOMAIN G.adj[n]) + (IF n \in DOMAIN G.adj[n] THEN 1 ELSE 0)

\* networkx.isolates
isolates(G) == {n \in DOMAIN G.node : degree(G, n) = 0}

\* Graph.remove_nodes_from
remove_nodes_from(G, ns) ==
    LET keep == DOMAIN G.node \ ns
    IN  [order |-> SelectSeq(G.order, LAMBDA n : n \in keep),
         node  |-> [n \in keep |-> G.node[n]],
         adj   |-> [n \in keep |->
                      [m \in (DOMAIN G.adj[n]) \ ns |-> G.adj[n][m]]]]

number_of_nodes(G) == Cardinality(DOMAIN G.node)

\* Graph.edges: every edge once, as the set of its end points (one element
\* for a self-loop).
EdgeSet(G) == UNION {{{a, b} : b \in DOMAIN G.adj[a]} : a \in DOMAIN G.adj}

number_of_edges(G) == Cardinality(EdgeSet(G))

(***************************************************************************)
(* GTFS input tables (pandas DataFrames as sequences of row records).      *)
(***************************************************************************)
StopCatalogue ==
    << [stop_id |-> "A", stop_name |-> "Alpha",   stop_lat |-> 53, stop_lon |-> -2],
       [stop_id |-> "B", stop_name |-> "Bravo",   stop_lat |-> 54, stop_lon |-> -2],
       [stop_id |-> "C", stop_name |-> "Charlie", stop_lat |-> 54, stop_lon |-> -3] >>

StopUniverse == {StopCatalogue[i].stop_id : i \in DOMAIN StopCatalogue}

\* the stops table lists a prefix of the catalogue: the other stop ids of
\* StopUniverse are then stops that stop_times names but stops.txt lacks
StopsTables == {SubSeq(StopCatalogue, 1, n) : n \in 0..Len(StopCatalogue)}

RoutesTables == {<<>>, << [route_id |-> "R1", route_type |-> 3] >>}

RouteIds == {"R1", "R2"}

TripIdSeq == <<"T1", "T2">>

TripsTables ==
    UNION {{[i \in 1..n |-> [trip_id |-> TripIdSeq[i], route_id |-> r[i]]] :
              r \in [1..n -> RouteIds]} : n \in 0..Len(TripIdSeq)}

StopSeqs == UNION {[1..n -> StopUniverse] : n \in 0..MaxStopTimeRows}

\* the stop_times rows of one trip, stored in descending stop_sequence
TripRows(trip_id, stops) ==
    [k \in 1..Len(stops) |->
        [trip_id       |-> trip_id,
         stop_id       |-> stops[Len(stops) + 1 - k],
         stop_sequence |-> Len(stops) + 1 - k]]

RECURSIVE StopTimesOf(_, _, _)
StopTimesOf(trips_df, seqs, i) ==
    IF i > Len(trips_df) THEN <<>>
    ELSE TripRows(trips_df[i].trip_id, seqs[i]) \o StopTimesOf(trips_df, seqs, i + 1)

StopTimesTables(trips_df) ==
    {StopTimesOf(trips_df, seqs, 1) :
        seqs \in {f \in [1..Len(trips_df) -> StopSeqs] :
                    SumSeq([i \in 1..Len(trips_df) |-> Len(f[i])]) <= MaxStopTimeRows}}

RequiredTables == <<"stops", "routes", "trips", "stop_times">>

(***************************************************************************)
(* TransportGraphBuilder.build_graph                                       *)
(***************************************************************************)
\* DataFrame.sort_values('stop_sequence')
RECURSIVE InsertRow(_, _)
InsertRow(sorted, row) ==
    IF sorted = <<>> THEN <<row>>
    ELSE IF Head(sorted).stop_sequence <= row.stop_sequence
         THEN <<Head(sorted)>> \o InsertRow(Tail(sorted), row)
         ELSE <<row>> \o sorted

RECURSIVE sort_values(_)
sort_values(rows) ==
    IF rows = <<>> THEN <<>>
    ELSE InsertRow(sort_values(SubSeq(rows, 1, Len(rows) - 1)), rows[Len(rows)])

\* stop_times_df[stop_times_df['trip_id'] == trip_id].sort_values(...)
trip_stops(stop_times_df, trip_id) ==
    sort_values(SelectSeq(stop_times_df, LAMBDA row : row.trip_id = trip_id))

\* trip_stops['stop_id'].tolist()
stop_ids(stop_times_df, trip_id) ==
    LET ts == trip_stops(stop_times_df, trip_id)
    IN  [k \in 1..Len(ts) |-> ts[k].stop_id]

\* the loop over the stops table: one add_node per row
RECURSIVE AddStops(_, _, _)
AddStops(G, stops_df, i) ==
    IF i > Len(stops_df) THEN G
    ELSE AddStops(add_node(G, stops_df[i].stop_id,
                           [type |-> "stop",
                            name |-> stops_df[i].stop_name,
                            lat  |-> stops_df[i].stop_lat,
                            lon  |-> stops_df[i].stop_lon]),
                  stops_df, i + 1)

\* SkipPair without the check: every pair is connected
SkipPairNever(G, source, target) == FALSE

\* the guard of one consecutive pair
SkipPair(G, source, target) == ~has_node(G, source) \/ ~has_node(G, target)

\* ConnectPair without the has_edge branch: add_edge on an existing edge
\* overwrites its attributes, trips included
ConnectPairNoAccumulate(G, source, target, trip_id, route_id, route_type) ==
    IF SkipPair(G, source, target) THEN G
    ELSE add_edge(G, source, target,
             [trip_id    |-> trip_id,
              route_id   |-> route_id,
              route_type |-> route_type,
              trips      |-> 1])

\* the body of the loop over consecutive stops
ConnectPair(G, source, target, trip_id, route_id, route_type) ==
    IF SkipPair(G, source, target) THEN G
    ELSE IF has_edge(G, source, target)
         THEN set_edge_attr(G, source, target,
                  [G.adj[source][target] EXCEPT !.trips = @ + 1])
         ELSE add_edge(G, source, target,
                  [trip_id    |-> trip_id,
                   route_id   |-> route_id,
                   route_type |-> route_type,
                   trips      |-> 1])

RECURSIVE ConnectStops(_, _, _, _, _, _)
ConnectStops(G, ids, i, trip_id, route_id, route_type) ==
    IF i > Len(ids) - 1 THEN G
    ELSE ConnectStops(ConnectPair(G, ids[i], ids[i + 1], trip_id, route_id, route_type),
                      ids, i + 1, trip_id, route_id, route_type)

trip_info(trips_df, trip_id) ==
    SelectSeq(trips_df, LAMBDA row : row.trip_id = trip_id)

route_info(routes_df, route_id) ==
    SelectSeq(routes_df, LAMBDA row : row.route_id = route_id)

\* a trip the loop body leaves with "continue" before connecting any stops
SkipsTrip(data, trip_id) ==
    \/ Len(trip_stops(data["stop_times"], trip_id)) <= 1
    \/ Len(trip_info(data["trips"], trip_id)) = 0
    \/ Len(route_info(data["routes"],
                      trip_info(data["trips"], trip_id)[1].route_id)) = 0

\* the body of the loop over trip_ids
ProcessTrip(G, data, trip_id) ==
    IF SkipsTrip(data, trip_id) THEN G
    ELSE LET route_id   == trip_info(data["trips"], trip_id)[1].route_id
             route_type == route_info(data["routes"], route_id)[1].route_type
         IN  ConnectStops(G, stop_ids(data["stop_times"], trip_id), 1,
                          trip_id, route_id, route_type)

\* ProcessTrips with "break" where the source has "continue" for a trip of
\* fewer than two stop-time rows
RECURSIVE ProcessTripsBreak(_, _, _, _)
ProcessTripsBreak(G, data, ids, i) ==
    IF i > Len(ids) THEN G
    ELSE IF Len(trip_stops(data["stop_times"], ids[i])) <= 1 THEN G
         ELSE ProcessTripsBreak(ProcessTrip(G, data, ids[i]), data, ids, i + 1)

RECURSIVE ProcessTrips(_, _, _, _)
ProcessTrips(G, data, ids, i) ==
    IF i > Len(ids) THEN G
    ELSE ProcessTrips(ProcessTrip(G, data, ids[i]), data, ids, i + 1)

\* the removal of the isolated nodes that ends build_graph
PruneIsolated(G) == remove_nodes_from(G, isolates(G))

\* the first required table the dict lacks ("none" when it has all four)
RECURSIVE FirstMissing(_, _)
FirstMissing(data, i) ==
    IF i > Len(RequiredTables) THEN "none"
    ELSE IF RequiredTables[i] \notin DOMAIN data THEN RequiredTables[i]
         ELSE FirstMissing(data, i + 1)

\* SampledTripIds drawing with replacement (trips_df.sample(k, replace=True))
SampledTripIdsWithReplacement(trips_df, k) ==
    {[j \in 1..k |-> trips_df[p[j]].trip_id] : p \in [1..k -> DOMAIN trips_df]}

\* trips_df.sample(k)['trip_id'].tolist(): k distinct rows in any order
SampledTripIds(trips_df, k) ==
    {[j \in 1..k |-> trips_df[p[j]].trip_id] :
        p \in {q \in [1..k -> DOMAIN trips_df] :
                  \A a, b \in 1..k : a # b => q[a] # q[b]}}

\* the lists trip_ids can be for a sample_size argument ({} is None)
TripIdChoices(trips_df, sample_size) ==
    IF sample_size # {} /\ (\E k \in sample_size : k < Len(trips_df))
    THEN SampledTripIds(trips_df, CHOOSE k \in sample_size : TRUE)
    ELSE {[j \in 1..Len(trips_df) |-> trips_df[j].trip_id]}

\* build_graph once the four tables are at hand and trip_ids is chosen
BuiltGraph(self_graph, data, ids) ==
    PruneIsolated(ProcessTrips(AddStops(self_graph, data["stops"], 1), data, ids, 1))

(***************************************************************************)
(* Rational numbers <<numerator, denominator>> in lowest terms, for the    *)
(* metric values and impact percentages (Python floats).                   *)
(***************************************************************************)
Abs(x) == IF x < 0 THEN -x ELSE x

RECURSIVE GCD(_, _)
GCD(a, b) == IF b = 0 THEN a ELSE GCD(b, a % b)

Rat(n, d) ==
    LET g == GCD(Abs(n), Abs(d))
        sgn == IF d < 0 THEN -1 ELSE 1
    IN  <<sgn * (n \div g), sgn * (d \div g)>>

RatInt(n) == <<n, 1>>

(***************************************************************************)
(* Network metrics (critical_nodes.py, _calculate_network_metrics_fast).   *)
(***************************************************************************)
\* average_clustering(..., trials=1000): the model tries fewer
Trials == 1

\* size of the largest component above which path lengths are sampled
PathSampleThreshold == 1000

\* sources sampled for the path length estimate
PathSampleSize == 100

Neighbors(G, n) == DOMAIN G.adj[n]

\* breadth-first layers from a frontier: <<nodes at distance 0, at 1, ...>>
RECURSIVE Layers(_, _, _)
Layers(G, frontier, seen) ==
    IF frontier = {} THEN <<>>
    ELSE LET next == (UNION {Neighbors(G, n) : n \in frontier}) \ seen
         IN  <<frontier>> \o Layers(G, next, seen \cup next)

\* nx.single_source_shortest_path_length: the sum of its values
PathLengthSum(G, source) ==
    LET ls == Layers(G, {source}, {source})
    IN  SumSeq([k \in 1..Len(ls) |-> (k - 1) * Cardinality(ls[k])])

ComponentOf(G, n) == UNION Range(Layers(G, {n}, {n}))

\* nx.connected_components: the components in the order of their first node
RECURSIVE ComponentsFrom(_, _, _)
ComponentsFrom(G, i, seen) ==
    IF i > Len(G.order) THEN <<>>
    ELSE IF G.order[i] \in seen THEN ComponentsFrom(G, i + 1, seen)
         ELSE LET c == ComponentOf(G, G.order[i])
              IN  <<c>> \o ComponentsFrom(G, i + 1, seen \cup c)

\* nx.connected_components taking the whole graph for one component
connected_components_unsplit(G) ==
    IF DOMAIN G.node = {} THEN <<>> ELSE <<DOMAIN G.node>>

connected_components(G) == ComponentsFrom(G, 1, {})

\* max(connected_components, key=len): the first of the largest ones
LargestComponent(cs) ==
    cs[CHOOSE i \in DOMAIN cs :
          /\ \A j \in DOMAIN cs : Cardinality(cs[j]) <= Cardinality(cs[i])
          /\ \A j \in 1..(i - 1) : Cardinality(cs[j]) < Cardinality(cs[i])]

\* G.subgraph(nodes)
subgraph(G, nodes) == remove_nodes_from(G, DOMAIN G.node \ nodes)

\* nx.density
density(G) ==
    LET n == number_of_nodes(G)
        m == number_of_edges(G)
    IN  IF m = 0 \/ n <= 1 THEN RatInt(0) ELSE Rat(2 * m, n * (n - 1))

\* nx.average_shortest_path_length of a connected graph (0 for one node)
average_shortest_path_length(G) ==
    LET n == number_of_nodes(G)
    IN  IF n = 1 THEN RatInt(0)
        ELSE Rat(SumSeq([i \in 1..n |-> PathLengthSum(G, G.order[i])]), n * (n - 1))

\* the path length estimate over PathSampleSize sampled sources: one value
\* per sample that np.random.choice can draw
SampledPathLengths(G) ==
    LET n == number_of_nodes(G)
        k == Min2(PathSampleSize, n)
    IN  {Rat(SumSeq([i \in 1..n |->
                 IF G.order[i] \in S THEN PathLengthSum(G, G.order[i]) ELSE 0]),
             k * n) :
            S \in {T \in SUBSET DOMAIN G.node : Cardinality(T) = k}}

\* one trial of nx.approximation.average_clustering: a node is drawn, then
\* two of its neighbours; the trial counts 1 when they are adjacent, and 0
\* when they are not or the node has fewer than two neighbours
TrialResults(G) ==
    {IF t[3] \in Neighbors(G, t[2]) THEN 1 ELSE 0 :
        t \in {q \in (DOMAIN G.node) \X (DOMAIN G.node) \X (DOMAIN G.node) :
                 /\ q[2] \in Neighbors(G, q[1])
                 /\ q[3] \in Neighbors(G, q[1])
                 /\ q[2] # q[3]}}
    \cup {0 : n \in {m \in DOMAIN G.node : Cardinality(Neighbors(G, m)) < 2}}

\* nx.approximation.average_clustering(G, trials): triangles / trials for
\* every run of draws the unseeded generator can make
average_clustering(G) ==
    {Rat(SumSeq(draws), Trials) : draws \in [1..Trials -> TrialResults(G)]}

\* _calculate_network_metrics_fast taking the path length of the whole
\* graph: nx.average_shortest_path_length raises on a graph that is not
\* connected and the except clause makes that 0
_calculate_network_metrics_whole_graph(G) ==
    {[m EXCEPT !.avg_path_length =
          IF Len(connected_components(G)) = 1
          THEN average_shortest_path_length(G) ELSE RatInt(0)] :
        m \in {[nodes            |-> RatInt(number_of_nodes(G)),
                edges            |-> RatInt(number_of_edges(G)),
                density          |-> density(G),
                largest_cc_size  |->
                    IF connected_components(G) = <<>> THEN RatInt(0)
                    ELSE RatInt(Cardinality(LargestComponent(connected_components(G)))),
                largest_cc_ratio |->
                    IF connected_components(G) = <<>> THEN RatInt(0)
                    ELSE Rat(Cardinality(LargestComponent(connected_components(G))),
                             number_of_nodes(G)),
                avg_path_length  |-> RatInt(0),
                avg_clustering   |-> ac] :
                  ac \in IF connected_components(G) = <<>> THEN {RatInt(0)}
                         ELSE average_clustering(
                                  subgraph(G, LargestComponent(connected_components(G))))}}

\* _calculate_network_metrics_fast: the metric dicts a call can return
_calculate_network_metrics_fast(G) ==
    LET cs == connected_components(G)
    IN  IF cs # <<>>
        THEN LET largest_cc == LargestComponent(cs)
                 largest_G == subgraph(G, largest_cc)
                 paths == IF Cardinality(largest_cc) > PathSampleThreshold
                          THEN SampledPathLengths(largest_G)
                          ELSE {average_shortest_path_length(largest_G)}
             IN  {[nodes            |-> RatInt(number_of_nodes(G)),
                   edges            |-> RatInt(number_of_edges(G)),
                   density          |-> density(G),
                   largest_cc_size  |-> RatInt(Cardinality(largest_cc)),
                   largest_cc_ratio |-> Rat(Cardinality(largest_cc), number_of_nodes(G)),
                   avg_path_length  |-> apl,
                   avg_clustering   |-> ac] :
                     apl \in paths, ac \in average_clustering(largest_G)}
        ELSE {[nodes            |-> RatInt(number_of_nodes(G)),
               edges            |-> RatInt(number_of_edges(G)),
               density          |-> density(G),
               largest_cc_size  |-> RatInt(0),
               largest_cc_ratio |-> RatInt(0),
               avg_path_length  |-> RatInt(0),
               avg_clustering   |-> RatInt(0)]}

\* ImpactOf giving the share that is left, 100 x modified / baseline
ImpactOfShareLeft(baseline, modified) ==
    IF baseline[1] = 0 THEN RatInt(0)
    ELSE Rat(100 * modified[1] * baseline[2], modified[2] * baseline[1])

\* 100 * (1 - modified / baseline), and 0 for a baseline of 0
ImpactOf(baseline, modified) ==
    IF baseline[1] = 0 THEN RatInt(0)
    ELSE Rat(100 * (modified[2] * baseline[1] - modified[1] * baseline[2]),
             modified[2] * baseline[1])

\* the impact dict: one "<metric>_impact" per baseline metric
Impact(baseline_metrics, modified_metrics) ==
    [nodes_impact            |-> ImpactOf(baseline_metrics.nodes, modified_metrics.nodes),
     edges_impact            |-> ImpactOf(baseline_metrics.edges, modified_metrics.edges),
     density_impact          |-> ImpactOf(baseline_metrics.density, modified_metrics.density),
     largest_cc_size_impact  |-> ImpactOf(baseline_metrics.largest_cc_size,
                                          modified_metrics.largest_cc_size),
     largest_cc_ratio_impact |-> ImpactOf(baseline_metrics.largest_cc_ratio,
                                          modified_metrics.largest_cc_ratio),
     avg_path_length_impact  |-> ImpactOf(baseline_metrics.avg_path_length,
                                          modified_metrics.avg_path_length),
     avg_clustering_impact   |-> ImpactOf(baseline_metrics.avg_clustering,
                                          modified_metrics.avg_clustering)]

(***************************************************************************)
(* Vulnerability assessment (critical_nodes.py).                           *)
(***************************************************************************)
\* what dict.get returns for a node the partition does not map (None)
NoCommunity == -1

PartitionGet(partition, n) ==
    IF n \in DOMAIN partition THEN partition[n] ELSE NoCommunity

\* _assess_community_impact_fast taking the communities adjacent to any
\* member of the node's community for neighbor_communities
_assess_community_impact_by_community(G, node_id, partition) ==
    IF DOMAIN partition = {} THEN NoAttrs
    ELSE LET node_community == PartitionGet(partition, node_id)
             neighbor_communities ==
                 {PartitionGet(partition, nb) :
                     nb \in UNION {Neighbors(G, n) :
                                      n \in {x \in DOMAIN partition :
                                                partition[x] = node_community}}}
                     \ {node_community}
             community_nodes ==
                 {n \in DOMAIN partition : partition[n] = node_community /\ n # node_id}
             comm_nodes(comm) == {n \in DOMAIN partition : partition[n] = comm}
             disconnected_communities ==
                 {comm \in neighbor_communities :
                     ~\E source \in community_nodes, target \in comm_nodes(comm) :
                         has_edge(G, source, target)}
         IN  [connected_communities    |-> Cardinality(neighbor_communities),
              disconnected_communities |-> Cardinality(disconnected_communities),
              community_impact_score   |->
                  Rat(Cardinality(disconnected_communities),
                      Max2(1, Cardinality(neighbor_communities)))]

\* _assess_community_impact_fast with the removed node left among the nodes
\* of its community
_assess_community_impact_keeping_node(G, node_id, partition) ==
    IF DOMAIN partition = {} THEN NoAttrs
    ELSE LET node_community == PartitionGet(partition, node_id)
             neighbor_communities ==
                 {PartitionGet(partition, nb) : nb \in Neighbors(G, node_id)}
                     \ {node_community}
             community_nodes ==
                 {n \in DOMAIN partition : partition[n] = node_community}
             comm_nodes(comm) == {n \in DOMAIN partition : partition[n] = comm}
             disconnected_communities ==
                 {comm \in neighbor_communities :
                     ~\E source \in community_nodes, target \in comm_nodes(comm) :
                         has_edge(G, source, target)}
         IN  [connected_communities    |-> Cardinality(neighbor_communities),
              disconnected_communities |-> Cardinality(disconnected_communities),
              community_impact_score   |->
                  Rat(Cardinality(disconnected_communities),
                      Max2(1, Cardinality(neighbor_communities)))]

\* _assess_community_impact_fast for a node of the graph
_assess_community_impact_fast(G, node_id, partition) ==
    IF DOMAIN partition = {} THEN NoAttrs
    ELSE LET node_community == PartitionGet(partition, node_id)
             neighbor_communities ==
                 {PartitionGet(partition, nb) : nb \in Neighbors(G, node_id)}
                     \ {node_community}
             community_nodes ==
                 {n \in DOMAIN partition : partition[n] = node_community /\ n # node_id}
             comm_nodes(comm) == {n \in DOMAIN partition : partition[n] = comm}
             disconnected_communities ==
                 {comm \in neighbor_communities :
                     ~\E source \in community_nodes, target \in comm_nodes(comm) :
                         has_edge(G, source, target)}
         IN  [connected_communities    |-> Cardinality(neighbor_communities),
              disconnected_communities |-> Cardinality(disconnected_communities),
              community_impact_score   |->
                  Rat(Cardinality(disconnected_communities),
                      Max2(1, Cardinality(neighbor_communities)))]

\* the node removed from the graph object itself (G.remove_nodes_from) where
\* the source takes a view
restricted_view_in_place(G, nodes) ==
    [base |-> remove_nodes_from(G, nodes), view |-> remove_nodes_from(G, nodes)]

\* nx.restricted_view(G, nodes, []): view is what the caller computes on,
\* base is the graph object G after the call (a view leaves it as it was)
restricted_view(G, nodes) ==
    [base |-> G, view |-> remove_nodes_from(G, nodes)]

\* G.nodes[node_id].get('name', str(node_id))
NodeName(G, node_id) ==
    IF "name" \in DOMAIN G.node[node_id] THEN G.node[node_id].name
    ELSE ToString(node_id)

\* the exception a node id that is not in the graph ends in: G.neighbors
\* raises when there is a partition, G.nodes[node_id] otherwise
MissingNodeError(partition) ==
    IF DOMAIN partition # {} THEN "NetworkXError" ELSE "KeyError"

\* the per-node computation, on graph object G: the outcomes it can have
\* (modified metrics are sampled), with the graph object as it is left
AssessNode(G, node_id, score, partition, baseline_metrics) ==
    LET rv == restricted_view(G, {node_id})
    IN  IF ~has_node(rv.base, node_id)
        THEN {[raised |-> MissingNodeError(partition), record |-> NoAttrs,
               graph |-> rv.base]}
        ELSE {[raised |-> "none",
               record |-> [node_id    |-> node_id,
                           name       |-> NodeName(rv.base, node_id),
                           centrality |-> score]
                          @@ Impact(baseline_metrics, modified_metrics)
                          @@ _assess_community_impact_fast(rv.base, node_id, partition),
               graph  |-> rv.base] :
                 modified_metrics \in _calculate_network_metrics_fast(rv.view)}

\* _vulnerability_worker(args), run in a worker process on its own copy of
\* the graph: only the returned record (or the exception) comes back
_vulnerability_worker(args) ==
    {[raised |-> o.raised, record |-> o.record] :
        o \in AssessNode(args[3], args[1], args[2], args[4], args[5])}

\* _assess_vulnerability_sequential from the i-th critical node on, on the
\* analyzer's own graph object: the outcomes of the loop
RECURSIVE SequentialFrom(_, _, _, _, _)
SequentialFrom(G, partition, critical_nodes, i, baseline_metrics) ==
    IF i > Len(critical_nodes)
    THEN {[raised |-> "none", results |-> <<>>, graph |-> G]}
    ELSE UNION {
           IF o.raised # "none"
           THEN {[raised |-> o.raised, results |-> <<>>, graph |-> o.graph]}
           ELSE {[raised  |-> rest.raised,
                  results |-> IF rest.raised = "none"
                              THEN <<o.record>> \o rest.results ELSE <<>>,
                  graph   |-> rest.graph] :
                    rest \in SequentialFrom(o.graph, partition, critical_nodes,
                                            i + 1, baseline_metrics)} :
           o \in AssessNode(G, critical_nodes[i][1], critical_nodes[i][2],
                            partition, baseline_metrics)}

_assess_vulnerability_sequential(G, partition, critical_nodes, baseline_metrics) ==
    SequentialFrom(G, partition, critical_nodes, 1, baseline_metrics)

\* the results in the order the futures finished (as_completed)
CompletionOrderResults(futures, completed) ==
    [k \in DOMAIN completed |-> futures[completed[k]].record]

\* list(executor.map(...)): the results in submission order
GatheredResults(futures, completed) ==
    [i \in DOMAIN futures |-> futures[i].record]

(***************************************************************************)
(* Rational arithmetic for modularity and centrality scores.               *)
(***************************************************************************)
RatAdd(a, b) == Rat(a[1] * b[2] + b[1] * a[2], a[2] * b[2])

RatMul(a, b) == Rat(a[1] * b[1], a[2] * b[2])

RatLess(a, b) == a[1] * b[2] < b[1] * a[2]

RECURSIVE RatSum(_)
RatSum(s) == IF s = <<>> THEN RatInt(0) ELSE RatAdd(Head(s), RatSum(Tail(s)))

\* the elements of a set of integers in increasing order
RECURSIVE Sorted(_)
Sorted(S) ==
    IF S = {} THEN <<>>
    ELSE LET m == CHOOSE x \in S : \A y \in S : x <= y
         IN  <<m>> \o Sorted(S \ {m})

\* a sequence without the later occurrences of its elements
RECURSIVE Distinct(_)
Distinct(s) ==
    IF s = <<>> THEN <<>>
    ELSE LET d == Distinct(SubSeq(s, 1, Len(s) - 1))
         IN  IF s[Len(s)] \in Range(d) THEN d ELSE Append(d, s[Len(s)])

IndexOf(s, x) == CHOOSE i \in DOMAIN s : s[i] = x

(***************************************************************************)
(* python-louvain (community_louvain.best_partition and .modularity), as   *)
(* called by CommunityDetector.detect_communities_louvain.  A weighted     *)
(* graph is a record  order: the nodes in iteration order,  w: the weight  *)
(* of the edge of two nodes (0 without an edge; w[n, n] is a self-loop).   *)
(* Modularity values are compared as numerators over 4 * size^2.           *)
(***************************************************************************)
\* the gain under which a pass, or a level, is the last one: __MIN = 1e-07
LouvainMinGain == <<1, 10000000>>

\* datas.get('weight', 1)
edge_weight(datas) == IF "weight" \in DOMAIN datas THEN datas.weight ELSE 1

WeightedGraph(G) ==
    [order |-> G.order,
     w     |-> [p \in (DOMAIN G.node) \X (DOMAIN G.node) |->
                  IF has_edge(G, p[1], p[2])
                  THEN edge_weight(G.adj[p[1]][p[2]]) ELSE 0]]

\* graph.degree(node, weight): a self-loop counts twice
WDegree(g, n) ==
    SumSeq([i \in DOMAIN g.order |->
               IF g.order[i] = n THEN 2 * g.w[n, n] ELSE g.w[n, g.order[i]]])

\* graph.size(weight): the total weight of the edges
WSize(g) ==
    SumSeq([i \in DOMAIN g.order |->
               SumSeq([j \in DOMAIN g.order |->
                          IF j >= i THEN g.w[g.order[i], g.order[j]] ELSE 0])])

\* Status.init: the i-th node is alone in community i - 1
StatusInit(g) == [n \in Range(g.order) |-> IndexOf(g.order, n) - 1]

\* Status.degrees[com] once the nodes of "without" have been removed
ComDegree(g, node2com, com, without) ==
    SumSeq([i \in DOMAIN g.order |->
               IF node2com[g.order[i]] = com /\ g.order[i] \notin without
               THEN WDegree(g, g.order[i]) ELSE 0])

\* Status.internals[com]: the weight of the edges inside the community
ComInternal(g, node2com, com) ==
    SumSeq([i \in DOMAIN g.order |->
               SumSeq([j \in DOMAIN g.order |->
                          IF /\ j >= i
                             /\ node2com[g.order[i]] = com
                             /\ node2com[g.order[j]] = com
                          THEN g.w[g.order[i], g.order[j]] ELSE 0])])

\* __modularity(status) times 4 * size^2
ModularityNum(g, node2com) ==
    LET links == WSize(g)
    IN  SumSeq([c \in 1..Len(g.order) |->
                   IF (c - 1) \in Range(node2com)
                   THEN 4 * links * ComInternal(g, node2com, c - 1)
                        - ComDegree(g, node2com, c - 1, {})
                          * ComDegree(g, node2com, c - 1, {})
                   ELSE 0])

\* new_mod - cur_mod < __MIN
GainBelowMin(g, new_num, cur_num) ==
    LET diff == new_num - cur_num
    IN  diff <= 0
        \/ diff * LouvainMinGain[2] < 4 * WSize(g) * WSize(g) * LouvainMinGain[1]

\* the keys of __neighcom(node, graph, status)
NeighComs(g, node2com, node) ==
    {node2com[v] : v \in {u \in Range(g.order) : u # node /\ g.w[node, u] > 0}}

\* __neighcom(node, graph, status)[com]
NeighWeight(g, node2com, node, com) ==
    SumSeq([i \in DOMAIN g.order |->
               IF g.order[i] # node /\ node2com[g.order[i]] = com
               THEN g.w[node, g.order[i]] ELSE 0])

\* incr of __one_level times 2 * size: the gain of putting the node, taken
\* out of its community, into community com
Increase(g, node2com, node, com) ==
    2 * WSize(g) * (NeighWeight(g, node2com, node, com)
                    - NeighWeight(g, node2com, node, node2com[node]))
    + WDegree(g, node) * (ComDegree(g, node2com, node2com[node], {node})
                          - ComDegree(g, node2com, com, {node}))

\* the communities best_com can be: those of the largest positive increase
BestComs(g, node2com, node) ==
    LET incr == [c \in NeighComs(g, node2com, node) |->
                    Increase(g, node2com, node, c)]
    IN  {c \in DOMAIN incr :
            incr[c] > 0 /\ \A d \in DOMAIN incr : incr[d] <= incr[c]}

\* one node of a pass of __one_level: the node leaves its community and
\* enters the neighbouring community of the largest positive increase (the
\* first such in a random order), or re-enters its own
MoveNode(g, node2com, node) ==
    LET best == BestComs(g, node2com, node)
    IN  IF best = {} THEN {node2com}
        ELSE {[n \in DOMAIN node2com |-> IF n = node THEN c ELSE node2com[n]] :
                 c \in best}

\* one pass over the nodes in a random order
RECURSIVE PassFrom(_, _, _)
PassFrom(g, node2com, rest) ==
    IF rest = {} THEN {node2com}
    ELSE UNION {UNION {PassFrom(g, s, rest \ {n}) : s \in MoveNode(g, node2com, n)} :
                   n \in rest}

\* __one_level: passes until one moves no node or gains less than __MIN
RECURSIVE __one_level(_, _)
__one_level(g, node2com) ==
    UNION {IF s = node2com
              \/ GainBelowMin(g, ModularityNum(g, s), ModularityNum(g, node2com))
           THEN {s}
           ELSE __one_level(g, s) :
              s \in PassFrom(g, node2com, Range(g.order))}

\* __renumber: the community ids become 0 .. count - 1; an id already in
\* that range is kept
__renumber(dictionary) ==
    LET values == Range(dictionary)
        target == 0..(Cardinality(values) - 1)
        out    == Sorted(values \ target)
        free   == Sorted(target \ values)
    IN  [n \in DOMAIN dictionary |->
            IF dictionary[n] \in target THEN dictionary[n]
            ELSE free[IndexOf(out, dictionary[n])]]

\* induced_graph: one node per community, the weights between two
\* communities added up (inside one community: a self-loop)
induced_graph(partition, g) ==
    LET order == Distinct([i \in DOMAIN g.order |-> partition[g.order[i]]])
    IN  [order |-> order,
         w     |-> [p \in Range(order) \X Range(order) |->
                      SumSeq([i \in DOMAIN g.order |->
                         SumSeq([j \in DOMAIN g.order |->
                            IF /\ j >= i
                               /\ {partition[g.order[i]], partition[g.order[j]]}
                                     = {p[1], p[2]}
                            THEN g.w[g.order[i], g.order[j]] ELSE 0])])]]

\* the loop of generate_dendrogram after the first level, and
\* partition_at_level of its last level: composed maps the nodes of the
\* graph to the communities of the levels so far
RECURSIVE NextLevels(_, _, _)
NextLevels(g, composed, mod_num) ==
    UNION {IF GainBelowMin(g, ModularityNum(g, s), mod_num)
           THEN {composed}
           ELSE LET next == __renumber(s)
                IN  NextLevels(induced_graph(next, g),
                               [n \in DOMAIN composed |-> next[composed[n]]],
                               ModularityNum(g, s)) :
              s \in __one_level(g, StatusInit(g))}

\* community_louvain.best_partition(graph): the partitions it can return
best_partition(G) ==
    IF number_of_edges(G) = 0
    THEN {[n \in DOMAIN G.node |-> IndexOf(G.order, n) - 1]}
    ELSE LET g == WeightedGraph(G)
         IN  UNION {LET first == __renumber(s)
                    IN  NextLevels(induced_graph(first, g), first,
                                   ModularityNum(g, s)) :
                       s \in __one_level(g, StatusInit(g))}

\* modularity answering 0 for a graph without links
modularityZeroWithoutLinks(partition, G) ==
    LET g == WeightedGraph(G)
    IN  IF WSize(g) = 0 THEN [raised |-> "none", value |-> RatInt(0)]
        ELSE [raised |-> "none",
              value  |-> Rat(ModularityNum(g, partition), 4 * WSize(g) * WSize(g))]

\* community_louvain.modularity(partition, graph): ValueError("A graph
\* without link has an undefined modularity"), or the score
modularity(partition, G) ==
    LET g == WeightedGraph(G)
    IN  IF WSize(g) = 0 THEN [raised |-> "ValueError", value |-> None]
        ELSE [raised |-> "none",
              value  |-> Rat(ModularityNum(g, partition), 4 * WSize(g) * WSize(g))]

(***************************************************************************)
(* CommunityDetector: the grouping of nodes and analyze_communities.       *)
(***************************************************************************)
\* GroupNodes keeping only the communities of two nodes or more
GroupNodesOfTwoOrMore(G, partition) ==
    [c \in {x \in Range(partition) :
               Cardinality({n \in DOMAIN partition : partition[n] = x}) >= 2} |->
        SelectSeq(G.order, LAMBDA n : partition[n] = c)]

\* community_nodes: community id -> its nodes, in the order of the partition
GroupNodes(G, partition) ==
    [c \in Range(partition) |-> SelectSeq(G.order, LAMBDA n : partition[n] = c)]

\* np.mean
Mean(xs) == Rat(SumSeq(xs), Len(xs))

\* the square of np.std
Variance(xs) ==
    Rat(Len(xs) * SumSeq([i \in DOMAIN xs |-> xs[i] * xs[i]]) - SumSeq(xs) * SumSeq(xs),
        Len(xs) * Len(xs))

\* the nodes of a community that carry both coordinates
Located(G, nodes) ==
    SelectSeq(nodes, LAMBDA n : {"lat", "lon"} \subseteq DOMAIN G.node[n])

\* the record of one community.  radius is np.std(lats) + np.std(lons): it is
\* kept as the pair of the two variances whose roots it adds.
CommunityRecord(G, nodes) ==
    [size       |-> Len(nodes),
     density    |-> density(subgraph(G, Range(nodes))),
     avg_degree |-> Rat(SumSeq([i \in DOMAIN nodes |->
                                   degree(subgraph(G, Range(nodes)), nodes[i])]),
                        Len(nodes)),
     center_lat |-> IF Located(G, nodes) = <<>> THEN None
                    ELSE Mean([i \in DOMAIN Located(G, nodes) |->
                                  G.node[Located(G, nodes)[i]].lat]),
     center_lon |-> IF Located(G, nodes) = <<>> THEN None
                    ELSE Mean([i \in DOMAIN Located(G, nodes) |->
                                  G.node[Located(G, nodes)[i]].lon]),
     radius     |-> IF Located(G, nodes) = <<>> THEN None
                    ELSE <<Variance([i \in DOMAIN Located(G, nodes) |->
                                        G.node[Located(G, nodes)[i]].lat]),
                           Variance([i \in DOMAIN Located(G, nodes) |->
                                        G.node[Located(G, nodes)[i]].lon])>>]

\* analyze_communities counting the nodes where it is to count the communities
analyze_communitiesCountingNodes(G, community_nodes, self_modularity) ==
    [modularity      |-> self_modularity,
     num_communities |-> number_of_nodes(G),
     communities     |-> [c \in DOMAIN community_nodes |->
                             CommunityRecord(G, community_nodes[c])]]

\* the dict analyze_communities returns
analyze_communities(G, community_nodes, self_modularity) ==
    [modularity      |-> self_modularity,
     num_communities |-> Cardinality(DOMAIN community_nodes),
     communities     |-> [c \in DOMAIN community_nodes |->
                             CommunityRecord(G, community_nodes[c])]]

(***************************************************************************)
(* Centrality scores (networkx) and identify_critical_nodes.               *)
(***************************************************************************)
\* the node count above which betweenness is sampled, and the sample taken
LargeGraphNodes == 1000

LargeGraphSample == 500

\* nx shortest-path distances from s (-1: unreachable)
Distances(G, s) ==
    LET ls == Layers(G, {s}, {s})
    IN  [n \in DOMAIN G.node |->
            IF \E k \in DOMAIN ls : n \in ls[k]
            THEN (CHOOSE k \in DOMAIN ls : n \in ls[k]) - 1
            ELSE -1]

\* the number of shortest paths from a source to t (sigma of Brandes'
\* algorithm), dist being the distances from the source
RECURSIVE PathCount(_, _, _)
PathCount(G, dist, t) ==
    IF dist[t] = 0 THEN 1
    ELSE IF dist[t] < 0 THEN 0
    ELSE SumSeq([i \in DOMAIN G.order |->
                    IF G.order[i] \in Neighbors(G, t) /\ dist[G.order[i]] = dist[t] - 1
                    THEN PathCount(G, dist, G.order[i]) ELSE 0])

\* the share of the shortest paths from s to t that pass through v, from the
\* tables of distances and of path counts
PairDependency(dist, sigma, s, t, v) ==
    IF /\ s # t /\ s # v /\ t # v
       /\ dist[s][t] > 0
       /\ dist[s][v] > 0
       /\ dist[v][t] > 0
       /\ dist[s][v] + dist[v][t] = dist[s][t]
    THEN Rat(sigma[s][v] * sigma[v][t], sigma[s][t])
    ELSE RatInt(0)

\* the betweenness of every node accumulated from the source nodes, before
\* rescaling
Accumulated(G, sources) ==
    LET dist  == [s \in DOMAIN G.node |-> Distances(G, s)]
        sigma == [s \in DOMAIN G.node |->
                     [t \in DOMAIN G.node |-> PathCount(G, dist[s], t)]]
    IN  [v \in DOMAIN G.node |->
            RatSum([i \in DOMAIN G.order |->
                      IF G.order[i] \in sources
                      THEN RatSum([j \in DOMAIN G.order |->
                                      PairDependency(dist, sigma, G.order[i],
                                                     G.order[j], v)])
                      ELSE RatInt(0)])]

\* _rescale(normalized=True) of an undirected graph; k is {} for None
BetweennessScale(n, k) ==
    IF n <= 2 THEN RatInt(1)
    ELSE IF k = {} THEN Rat(1, (n - 1) * (n - 2))
    ELSE Rat(n, (n - 1) * (n - 2) * (CHOOSE x \in k : TRUE))

\* the scores from a set of source nodes
BetweennessFrom(G, sources, k) ==
    LET acc == Accumulated(G, sources)
    IN  [v \in DOMAIN G.node |->
            RatMul(acc[v], BetweennessScale(number_of_nodes(G), k))]

\* nx.betweenness_centrality(G, k, normalized=True): with k the sources are
\* random.sample(nodes, k), which raises ValueError for k over the node count
betweenness_centrality(G, k) ==
    IF k = {}
    THEN {[raised |-> "none", scores |-> BetweennessFrom(G, DOMAIN G.node, k)]}
    ELSE IF \E x \in k : x > number_of_nodes(G) \/ x < 0
    THEN {[raised |-> "ValueError", scores |-> NoAttrs]}
    ELSE {[raised |-> "none", scores |-> BetweennessFrom(G, sources, k)] :
             sources \in {S \in SUBSET DOMAIN G.node : k = {Cardinality(S)}}}

\* nx.degree_centrality
degree_centrality(G) ==
    IF number_of_nodes(G) <= 1 THEN [v \in DOMAIN G.node |-> RatInt(1)]
    ELSE [v \in DOMAIN G.node |-> Rat(degree(G, v), number_of_nodes(G) - 1)]

\* nx.closeness_centrality (wf_improved)
closeness_centrality(G) ==
    [v \in DOMAIN G.node |->
        IF PathLengthSum(G, v) > 0 /\ number_of_nodes(G) > 1
        THEN RatMul(Rat(Cardinality(ComponentOf(G, v)) - 1, PathLengthSum(G, v)),
                    Rat(Cardinality(ComponentOf(G, v)) - 1, number_of_nodes(G) - 1))
        ELSE RatInt(0)]

\* The scores of the two methods solved numerically
\* (nx.eigenvector_centrality_numpy, nx.katz_centrality_numpy) are not
\* computed: each node gets one of these values, or the solver raises.
NumericScores == {<<1, 2>>, <<1, 3>>}

numeric_centrality(G) ==
    {[raised |-> "NetworkXError", scores |-> NoAttrs]}
    \cup {[raised |-> "none", scores |-> f] : f \in [DOMAIN G.node -> NumericScores]}

Methods == {"betweenness", "degree", "closeness", "eigenvector", "katz"}

\* the k of the analyzer's betweenness call ({}: the exact computation)
AnalyzerSample(G, sample_size) ==
    IF (sample_size # {} /\ sample_size # {0}) \/ number_of_nodes(G) > LargeGraphNodes
    THEN IF sample_size # {} /\ sample_size # {0} THEN sample_size
         ELSE {Min2(LargeGraphSample, number_of_nodes(G))}
    ELSE {}

\* the k of the detector's betweenness call
DetectorSample(G) ==
    IF number_of_nodes(G) > LargeGraphNodes THEN {LargeGraphSample} ELSE {}

\* CentralityOf with the degree centrality for a method it does not know
CentralityOfDefaultingToDegree(G, method, sample_size) ==
    IF method = "betweenness"
    THEN betweenness_centrality(G, AnalyzerSample(G, sample_size))
    ELSE IF method = "closeness"
    THEN {[raised |-> "none", scores |-> closeness_centrality(G)]}
    ELSE IF method = "eigenvector" \/ method = "katz"
    THEN numeric_centrality(G)
    ELSE {[raised |-> "none", scores |-> degree_centrality(G)]}

\* the if/elif chain of identify_critical_nodes: the outcomes of the
\* centrality computation
CentralityOf(G, method, sample_size) ==
    IF method = "betweenness"
    THEN betweenness_centrality(G, AnalyzerSample(G, sample_size))
    ELSE IF method = "degree"
    THEN {[raised |-> "none", scores |-> degree_centrality(G)]}
    ELSE IF method = "closeness"
    THEN {[raised |-> "none", scores |-> closeness_centrality(G)]}
    ELSE IF method = "eigenvector" \/ method = "katz"
    THEN numeric_centrality(G)
    ELSE {[raised |-> "ValueError: Unknown centrality method: " \o method,
           scores |-> NoAttrs]}

\* centrality.items(): the (node, score) pairs in the graph's node order
Items(G, scores) == [i \in DOMAIN G.order |-> <<G.order[i], scores[G.order[i]]>>]

\* sorted(..., key=score, reverse=True): a stable sort, so pairs of equal
\* score keep the order they have in the list
RECURSIVE InsertByScore(_, _)
InsertByScore(sorted, item) ==
    IF sorted = <<>> THEN <<item>>
    ELSE IF RatLess(Head(sorted)[2], item[2]) THEN <<item>> \o sorted
    ELSE <<Head(sorted)>> \o InsertByScore(Tail(sorted), item)

\* sorted(..., key=score) without reverse=True: ascending scores
RECURSIVE SortedByScoreAscending(_)
SortedByScoreAscending(items) ==
    IF items = <<>> THEN <<>>
    ELSE LET rest == SortedByScoreAscending(Tail(items))
             low  == SelectSeq(rest, LAMBDA x : RatLess(x[2], Head(items)[2]))
             high == SelectSeq(rest, LAMBDA x : ~RatLess(x[2], Head(items)[2]))
         IN  low \o <<Head(items)>> \o high

RECURSIVE SortedByScore(_)
SortedByScore(items) ==
    IF items = <<>> THEN <<>>
    ELSE InsertByScore(SortedByScore(SubSeq(items, 1, Len(items) - 1)),
                       items[Len(items)])

\* the slice [:top_n]
FirstN(s, top_n) ==
    IF top_n >= 0 THEN SubSeq(s, 1, Min2(top_n, Len(s)))
    ELSE SubSeq(s, 1, Max2(0, Len(s) + top_n))

\* what a call of identify_critical_nodes comes to, c being the outcome of
\* its centrality computation
IdentifyOutcome(G, c, top_n) ==
    IF c.raised = "none"
    THEN [status |-> "returned",
          results |-> FirstN(SortedByScore(Items(G, c.scores)), top_n)]
    ELSE [status |-> c.raised, results |-> <<>>]

(***************************************************************************)
(* State.                                                                  *)
(***************************************************************************)
VARIABLES
    gtfs_data,      \* TransportGraphBuilder.gtfs_data: table name -> rows
    graph,          \* TransportGraphBuilder.graph
    b_result,       \* how the last build_graph call ended
    b_trip_ids,     \* trip_ids of the last build_graph call
    b_calls,        \* build_graph calls made on this builder
    b_sample_size,  \* sample_size of the last build_graph call ({} is None)
    analyzer_graph, \* CriticalNodeAnalyzer.graph
    partition,      \* CriticalNodeAnalyzer.partition (no key: None or {})
    critical_nodes, \* the critical_nodes argument of assess_vulnerability
    max_workers,    \* the max_workers argument
    seq_result,     \* outcome of assess_vulnerability(parallel=False)
    par_result,     \* outcome of assess_vulnerability(parallel=True)
    par_pc,         \* where the parallel call is
    baseline,       \* baseline_metrics of the parallel call
    futures,        \* the futures of executor.map, in submission order
    completed,      \* the futures' indices in the order they finished
    i_args,         \* the arguments of the last identify_critical_nodes call
    i_result,       \* how that call ended
    d_graph,        \* CommunityDetector.graph
    d_partition,    \* CommunityDetector.partition
    d_community_nodes, \* CommunityDetector.community_nodes
    d_modularity,   \* CommunityDetector.modularity
    d_result,       \* the last call made on the detector, and how it ended
    m_graph,        \* the graph a caller of _calculate_network_metrics_fast holds
    m_hidden,       \* the nodes its restricted view hides (none: the graph itself)
    m_calls         \* the outcomes of its _calculate_network_metrics_fast calls

bvars == <<gtfs_data, graph, b_result, b_trip_ids, b_calls, b_sample_size>>

avars == <<analyzer_graph, partition, critical_nodes, max_workers, seq_result,
           par_result, par_pc, baseline, futures, completed>>

ivars == <<i_args, i_result>>

dvars == <<d_graph, d_partition, d_community_nodes, d_modularity, d_result>>

mvars == <<m_graph, m_hidden, m_calls>>

vars == <<bvars, avars, ivars, dvars, mvars>>


NoResult == [status |-> "none", results |-> <<>>]

\* no method of the detector has been called
NoCall == [op |-> "none", arg |-> None, status |-> "none", results |-> <<>>]

\* no identify_critical_nodes call has been made
NoIdentify ==
    /\ i_args = None
    /\ i_result = NoResult

\* no assess_vulnerability call has been made, and none is to come
NoAssess ==
    /\ critical_nodes = <<>>
    /\ max_workers = 1
    /\ seq_result = NoResult
    /\ par_result = NoResult
    /\ par_pc = "idle"
    /\ baseline = NoAttrs
    /\ futures = <<>>
    /\ completed = <<>>

\* no caller computes metrics on its own
NoMetrics ==
    /\ m_graph = EmptyGraph
    /\ m_hidden = {}
    /\ m_calls = <<>>

\* the detector's variables while no detector exists
NoDetector ==
    /\ d_graph = EmptyGraph
    /\ d_partition = None
    /\ d_community_nodes = None
    /\ d_modularity = None
    /\ d_result = NoCall

\* the analyzer's variables while only a builder exists
NoAnalyzer ==
    /\ analyzer_graph = EmptyGraph
    /\ partition = NoAttrs
    /\ NoIdentify
    /\ NoDetector
    /\ NoMetrics
    /\ critical_nodes = <<>>
    /\ max_workers = 1
    /\ seq_result = NoResult
    /\ par_result = NoResult
    /\ par_pc = "idle"
    /\ baseline = NoAttrs
    /\ futures = <<>>
    /\ completed = <<>>

\* the builder's variables while only an analyzer exists
NoBuilder ==
    /\ gtfs_data = NoAttrs
    /\ graph = EmptyGraph
    /\ b_result = "none"
    /\ b_trip_ids = <<>>
    /\ b_calls = 0
    /\ b_sample_size = {}

\* the dict handed to the builder: all four tables
FullData(stops, routes, trips, stop_times) ==
    [t \in Range(RequiredTables) |->
        CASE t = "stops"      -> stops
          [] t = "routes"     -> routes
          [] t = "trips"      -> trips
          [] t = "stop_times" -> stop_times]

\* the same dict without one key
Lacking(data, absent) == [t \in DOMAIN data \ {absent} |-> data[t]]

\* TransportGraphBuilder.__init__: the builder holds the dict it is given.
\* Feeds of two trips have a routes table and at least two stops; feeds of
\* at most one trip also cover the empty tables and a dict lacking a table.
InitBuilder ==
    /\ \E stops \in StopsTables, routes \in RoutesTables, trips \in TripsTables :
         \E stop_times \in StopTimesTables(trips) :
            \/ /\ Len(stops) >= 2 /\ routes # <<>>
               /\ gtfs_data = FullData(stops, routes, trips, stop_times)
            \/ /\ Len(trips) <= 1
               /\ \/ gtfs_data = FullData(stops, routes, trips, stop_times)
                  \/ \E absent \in Range(RequiredTables) :
                       gtfs_data = Lacking(FullData(stops, routes, trips, stop_times),
                                           absent)
    /\ graph = EmptyGraph
    /\ b_result = "none"
    /\ b_trip_ids = <<>>
    /\ b_calls = 0
    /\ b_sample_size = {}
    /\ NoAnalyzer

SampleSizes == {{}} \cup {{k} : k \in 0..MaxSample}

\* build_graph raising KeyError at the table look-ups, before it changes
\* anything
BuildGraphKeyError(sample_size) ==
    /\ b_calls < MaxCalls
    /\ FirstMissing(gtfs_data, 1) # "none"
    /\ b_result' = "KeyError"
    /\ b_trip_ids' = <<>>
    /\ b_calls' = b_calls + 1
    /\ b_sample_size' = sample_size
    /\ UNCHANGED <<gtfs_data, graph, avars, ivars, dvars, mvars>>

\* build_graph(sample_size) returning self.graph
BuildGraph(sample_size) ==
    /\ b_calls < MaxCalls
    /\ FirstMissing(gtfs_data, 1) = "none"
    /\ \E ids \in TripIdChoices(gtfs_data["trips"], sample_size) :
         /\ graph' = BuiltGraph(graph, gtfs_data, ids)
         /\ b_trip_ids' = ids
    /\ b_result' = "graph"
    /\ b_calls' = b_calls + 1
    /\ b_sample_size' = sample_size
    /\ UNCHANGED <<gtfs_data, avars, ivars, dvars, mvars>>

NextBuilder ==
    \/ \E sample_size \in SampleSizes : BuildGraphKeyError(sample_size)
    \/ \E sample_size \in SampleSizes : BuildGraph(sample_size)

SpecBuilder == InitBuilder /\ [][NextBuilder]_vars

(***************************************************************************)
(* build_graph on feeds of more trips, for the sampling of trips.          *)
(***************************************************************************)
MaxSamplingTrips == 3

SamplingTripIds == <<"T1", "T2", "T3", "T4">>

\* the stop sequences of the trips of these feeds
SamplingStopSeqs == {<<"A", "B">>, <<"B", "C">>}

SamplingTrips ==
    {[i \in 1..n |-> [trip_id |-> SamplingTripIds[i], route_id |-> "R1"]] :
        n \in 0..Min2(MaxSamplingTrips, Len(SamplingTripIds))}

\* TransportGraphBuilder.__init__ on a feed with all its tables, every trip
\* on a known route and over known stops
InitSampling ==
    /\ \E trips \in SamplingTrips :
         \E seqs \in [1..Len(trips) -> SamplingStopSeqs] :
            gtfs_data = FullData(StopCatalogue, << [route_id |-> "R1", route_type |-> 3] >>,
                                 trips, StopTimesOf(trips, seqs, 1))
    /\ graph = EmptyGraph
    /\ b_result = "none"
    /\ b_trip_ids = <<>>
    /\ b_calls = 0
    /\ b_sample_size = {}
    /\ NoAnalyzer

\* None, and the sizes from 0 to one more than the longest trips table
SamplingSizes == {{}} \cup {{k} : k \in 0..(MaxSamplingTrips + 1)}

NextSampling == \E sample_size \in SamplingSizes : BuildGraph(sample_size)

SpecSampling == InitSampling /\ [][NextSampling]_vars

(***************************************************************************)
(* CriticalNodeAnalyzer.assess_vulnerability                               *)
(***************************************************************************)
AnalyzerNodes == <<1, 2, 3, 4>>

NodeNames == <<"n1", "n2", "n3", "n4">>

AnalyzerPairs ==
    {p \in Range(AnalyzerNodes) \X Range(AnalyzerNodes) : p[1] < p[2]}

RECURSIVE AddNodes(_, _)
AddNodes(G, i) ==
    IF i > Len(AnalyzerNodes) THEN G
    ELSE AddNodes(add_node(G, AnalyzerNodes[i], [name |-> NodeNames[i]]), i + 1)

RECURSIVE AddEdges(_, _)
AddEdges(G, edges) ==
    IF edges = {} THEN G
    ELSE LET e == CHOOSE p \in edges : TRUE
         IN  AddEdges(add_edge(G, e[1], e[2], [trips |-> 1]), edges \ {e})

\* the graphs handed to the analyzer: every simple graph on AnalyzerNodes
AnalyzerGraphs == {AddEdges(AddNodes(EmptyGraph, 1), E) : E \in SUBSET AnalyzerPairs}

\* no partition, one community, or two communities
Partitions ==
    {NoAttrs,
     [n \in Range(AnalyzerNodes) |-> 0],
     [n \in Range(AnalyzerNodes) |-> IF n <= 2 THEN 0 ELSE 1]}

\* the node ids of critical_nodes: two nodes of the graph and an id that is
\* no node of it
CriticalIds == {1, 2, 9}

Scores == {<<1, 2>>}

MaxCritical == 2

CriticalLists ==
    UNION {[1..n -> CriticalIds \X Scores] : n \in 0..MaxCritical}

WorkerCounts == {1, 2}

\* CriticalNodeAnalyzer.__init__, and the arguments of the calls to come
InitAnalyzer ==
    /\ analyzer_graph \in AnalyzerGraphs
    /\ partition \in Partitions
    /\ critical_nodes \in CriticalLists
    /\ max_workers \in WorkerCounts
    /\ seq_result = NoResult
    /\ par_result = NoResult
    /\ par_pc = "idle"
    /\ baseline = NoAttrs
    /\ futures = <<>>
    /\ completed = <<>>
    /\ NoBuilder
    /\ NoIdentify
    /\ NoDetector
    /\ NoMetrics

\* the outcome of a call as the caller sees it
CallResult(o) ==
    IF o.raised = "none" THEN [status |-> "returned", results |-> o.results]
    ELSE [status |-> o.raised, results |-> <<>>]

\* assess_vulnerability(critical_nodes, parallel=False)
AssessSequential ==
    /\ seq_result.status = "none"
    /\ par_pc \in {"idle", "finished"}
    /\ \E baseline_metrics \in _calculate_network_metrics_fast(analyzer_graph) :
         \E o \in _assess_vulnerability_sequential(analyzer_graph, partition,
                                                   critical_nodes, baseline_metrics) :
            /\ seq_result' = CallResult(o)
            /\ analyzer_graph' = o.graph
    /\ UNCHANGED <<partition, critical_nodes, max_workers, par_result, par_pc,
                   baseline, futures, completed, bvars, ivars, dvars, mvars>>

\* assess_vulnerability(critical_nodes, parallel=True) with at most one
\* critical node: the sequential implementation runs
AssessParallelFewNodes ==
    /\ par_pc = "idle"
    /\ ~(Len(critical_nodes) > 1)
    /\ \E baseline_metrics \in _calculate_network_metrics_fast(analyzer_graph) :
         \E o \in _assess_vulnerability_sequential(analyzer_graph, partition,
                                                   critical_nodes, baseline_metrics) :
            /\ par_result' = CallResult(o)
            /\ analyzer_graph' = o.graph
    /\ par_pc' = "finished"
    /\ UNCHANGED <<partition, critical_nodes, max_workers, seq_result,
                   baseline, futures, completed, bvars, ivars, dvars, mvars>>

\* assess_vulnerability(critical_nodes, parallel=True): the baseline is
\* computed and one task per critical node is submitted to the pool
SubmitParallel ==
    /\ par_pc = "idle"
    /\ Len(critical_nodes) > 1
    /\ baseline' \in _calculate_network_metrics_fast(analyzer_graph)
    /\ futures' = [i \in DOMAIN critical_nodes |->
                      [state |-> "pending", raised |-> "none", record |-> NoAttrs]]
    /\ completed' = <<>>
    /\ par_pc' = "running"
    /\ UNCHANGED <<analyzer_graph, partition, critical_nodes, max_workers,
                   seq_result, par_result, bvars, ivars, dvars, mvars>>

Running == {i \in DOMAIN futures : futures[i].state = "running"}

\* WorkerStart in a pool that starts a task whenever one is pending, however
\* many are running
WorkerStartUnbounded(i) ==
    /\ par_pc \in {"running", "cancelling"}
    /\ futures[i].state = "pending"
    /\ \A j \in 1..(i - 1) : futures[j].state # "pending"
    /\ futures' = [futures EXCEPT ![i].state = "running"]
    /\ UNCHANGED <<analyzer_graph, partition, critical_nodes, max_workers,
                   seq_result, par_result, par_pc, baseline, completed, bvars,
                   ivars, dvars, mvars>>

\* an idle worker process takes the next task of the queue
WorkerStart(i) ==
    /\ par_pc \in {"running", "cancelling"}
    /\ futures[i].state = "pending"
    /\ \A j \in 1..(i - 1) : futures[j].state # "pending"
    /\ Cardinality(Running) < max_workers
    /\ futures' = [futures EXCEPT ![i].state = "running"]
    /\ UNCHANGED <<analyzer_graph, partition, critical_nodes, max_workers,
                   seq_result, par_result, par_pc, baseline, completed, bvars,
                   ivars, dvars, mvars>>

\* a worker process finishes its task: the record, or the exception, is set
\* on the future
WorkerFinish(i) ==
    /\ par_pc \in {"running", "cancelling"}
    /\ futures[i].state = "running"
    /\ \E o \in _vulnerability_worker(<<critical_nodes[i][1], critical_nodes[i][2],
                                        analyzer_graph, partition, baseline>>) :
         futures' = [futures EXCEPT ![i] =
                        [state  |-> IF o.raised = "none" THEN "done" ELSE "failed",
                         raised |-> o.raised,
                         record |-> o.record]]
    /\ completed' = Append(completed, i)
    /\ UNCHANGED <<analyzer_graph, partition, critical_nodes, max_workers,
                   seq_result, par_result, par_pc, baseline, bvars, ivars, dvars, mvars>>

\* list(executor.map(...)) has every result: the call returns the list
GatherReturn ==
    /\ par_pc = "running"
    /\ \A i \in DOMAIN futures : futures[i].state = "done"
    /\ par_result' = [status |-> "returned",
                      results |-> GatheredResults(futures, completed)]
    /\ par_pc' = "finished"
    /\ UNCHANGED <<analyzer_graph, partition, critical_nodes, max_workers,
                   seq_result, baseline, futures, completed, bvars, ivars, dvars, mvars>>

\* the result iterator reaches a future that holds an exception: it cancels
\* the futures that have not started and re-raises
GatherFailure(i) ==
    /\ par_pc = "running"
    /\ futures[i].state = "failed"
    /\ \A j \in 1..(i - 1) : futures[j].state = "done"
    /\ futures' = [j \in DOMAIN futures |->
                      IF futures[j].state = "pending"
                      THEN [futures[j] EXCEPT !.state = "cancelled"]
                      ELSE futures[j]]
    /\ par_result' = [status |-> futures[i].raised, results |-> <<>>]
    /\ par_pc' = "cancelling"
    /\ UNCHANGED <<analyzer_graph, partition, critical_nodes, max_workers,
                   seq_result, baseline, completed, bvars, ivars, dvars, mvars>>

\* the executor has shut down (its running tasks are over): the exception
\* leaves assess_vulnerability
RaiseParallel ==
    /\ par_pc = "cancelling"
    /\ Running = {}
    /\ par_pc' = "finished"
    /\ UNCHANGED <<analyzer_graph, partition, critical_nodes, max_workers,
                   seq_result, par_result, baseline, futures, completed, bvars,
                   ivars, dvars, mvars>>

NextAnalyzer ==
    \/ AssessSequential
    \/ AssessParallelFewNodes
    \/ SubmitParallel
    \/ \E i \in DOMAIN futures : WorkerStart(i)
    \/ \E i \in DOMAIN futures : WorkerFinish(i)
    \/ GatherReturn
    \/ \E i \in DOMAIN futures : GatherFailure(i)
    \/ RaiseParallel

SpecAnalyzer == InitAnalyzer /\ [][NextAnalyzer]_vars

(***************************************************************************)
(* The graphs handed to CommunityDetector and to identify_critical_nodes:  *)
(* every simple graph on the first nodes of the catalogue.  The nodes are  *)
(* not inserted in the order of their ids, and the last one has no         *)
(* coordinates.                                                            *)
(***************************************************************************)
NodeCatalogue ==
    << [id |-> 2, attrs |-> [name |-> "n2", lat |-> 53, lon |-> -2]],
       [id |-> 1, attrs |-> [name |-> "n1", lat |-> 54, lon |-> -2]],
       [id |-> 3, attrs |-> [name |-> "n3", lat |-> 54, lon |-> -3]],
       [id |-> 4, attrs |-> [name |-> "n4"]] >>

RECURSIVE AddCatalogue(_)
AddCatalogue(n) ==
    IF n = 0 THEN EmptyGraph
    ELSE add_node(AddCatalogue(n - 1), NodeCatalogue[n].id, NodeCatalogue[n].attrs)

CataloguePairs(n) ==
    {p \in (DOMAIN AddCatalogue(n).node) \X (DOMAIN AddCatalogue(n).node) : p[1] < p[2]}

CatalogueGraphs ==
    UNION {{AddEdges(AddCatalogue(n), E) : E \in SUBSET CataloguePairs(n)} :
              n \in 0..Len(NodeCatalogue)}

(***************************************************************************)
(* CommunityDetector                                                       *)
(***************************************************************************)
\* CommunityDetector.__init__
InitDetector ==
    /\ d_graph \in CatalogueGraphs
    /\ d_partition = None
    /\ d_community_nodes = None
    /\ d_modularity = None
    /\ d_result = NoCall
    /\ NoBuilder
    /\ analyzer_graph = EmptyGraph
    /\ partition = NoAttrs
    /\ NoAssess
    /\ NoIdentify
    /\ NoMetrics

\* detect_communities_louvain: the partition is assigned, then the
\* modularity call raises or the remaining fields are assigned and the
\* partition is returned
DetectCommunitiesLouvain ==
    /\ \E p \in best_partition(d_graph) :
         LET m == modularity(p, d_graph)
         IN  /\ d_partition' = Some(p)
             /\ IF m.raised # "none"
                THEN /\ d_result' = [op |-> "detect", arg |-> None,
                                     status |-> m.raised, results |-> <<>>]
                     /\ UNCHANGED <<d_community_nodes, d_modularity>>
                ELSE /\ d_modularity' = Some(m.value)
                     /\ d_community_nodes' = Some(GroupNodes(d_graph, p))
                     /\ d_result' = [op |-> "detect", arg |-> None,
                                     status |-> "returned", results |-> p]
    /\ UNCHANGED <<d_graph, bvars, avars, ivars, mvars>>

\* analyze_communities raising: ValueError before any detection, TypeError
\* at len(self.community_nodes) when community_nodes is None
AnalyzeRaises ==
    /\ d_partition = None \/ d_community_nodes = None
    /\ d_result' = [op |-> "analyze", arg |-> None,
                    status |-> IF d_partition = None THEN "ValueError" ELSE "TypeError",
                    results |-> <<>>]
    /\ UNCHANGED <<d_graph, d_partition, d_community_nodes, d_modularity,
                   bvars, avars, ivars, mvars>>

\* analyze_communities returning its results
AnalyzeReturns ==
    /\ d_partition # None /\ d_community_nodes # None
    /\ d_result' = [op |-> "analyze", arg |-> None, status |-> "returned",
                    results |-> analyze_communities(d_graph, d_community_nodes[1],
                                                    d_modularity)]
    /\ UNCHANGED <<d_graph, d_partition, d_community_nodes, d_modularity,
                   bvars, avars, ivars, mvars>>

MaxTopN == 3

TopNs == 0..MaxTopN

\* CommunityDetector.identify_critical_nodes(top_n)
DetectorIdentify ==
    /\ \E c \in betweenness_centrality(d_graph, DetectorSample(d_graph)) :
         \E top_n \in TopNs :
            d_result' = [op |-> "identify", arg |-> Some(top_n),
                         status  |-> IdentifyOutcome(d_graph, c, top_n).status,
                         results |-> IdentifyOutcome(d_graph, c, top_n).results]
    /\ UNCHANGED <<d_graph, d_partition, d_community_nodes, d_modularity,
                   bvars, avars, ivars, mvars>>

NextDetector ==
    \/ DetectCommunitiesLouvain
    \/ AnalyzeRaises
    \/ AnalyzeReturns
    \/ DetectorIdentify

SpecDetector == InitDetector /\ [][NextDetector]_vars

(***************************************************************************)
(* CriticalNodeAnalyzer.identify_critical_nodes                            *)
(***************************************************************************)
\* the five methods and a name that is none of them
MethodNames == Methods \cup {"pagerank"}

MaxBetweennessSample == 2

BetweennessSamples == {{}} \cup {{k} : k \in 0..MaxBetweennessSample}

\* CriticalNodeAnalyzer.__init__: a graph, and no partition or one community
InitIdentify ==
    /\ analyzer_graph \in CatalogueGraphs
    /\ partition \in {NoAttrs, [n \in DOMAIN analyzer_graph.node |-> 0]}
    /\ NoAssess
    /\ NoIdentify
    /\ NoBuilder
    /\ NoDetector
    /\ NoMetrics

\* sample_size is read by the betweenness branch only
SampleChoices(method) ==
    IF method = "betweenness" THEN BetweennessSamples ELSE {{}}

\* identify_critical_nodes(method, top_n, sample_size).  The call leaves the
\* analyzer as it found it, so one call per analyzer shows them all.
IdentifyCriticalNodes(method, sample_size) ==
    /\ i_result.status = "none"
    /\ \E c \in CentralityOf(analyzer_graph, method, sample_size) :
         \E top_n \in TopNs :
            /\ i_args' = Some([method |-> method, top_n |-> top_n,
                               sample_size |-> sample_size])
            /\ i_result' = IdentifyOutcome(analyzer_graph, c, top_n)
    /\ UNCHANGED <<avars, bvars, dvars, mvars>>

NextIdentify ==
    \E method \in MethodNames :
        \E sample_size \in SampleChoices(method) :
            IdentifyCriticalNodes(method, sample_size)

SpecIdentify == InitIdentify /\ [][NextIdentify]_vars

(***************************************************************************)
(* The bridge-node scenario: two cliques of four nodes joined only through *)
(* one intermediate node.                                                  *)
(***************************************************************************)
BridgeNode == "X"

CliqueA == <<"a1", "a2", "a3", "a4">>

CliqueB == <<"b1", "b2", "b3", "b4">>

BridgeOrder == CliqueA \o <<BridgeNode>> \o CliqueB

\* the edges of a clique
CliquePairs(clique) ==
    {<<clique[i], clique[j]>> : i, j \in DOMAIN clique} \ {<<n, n>> : n \in Range(clique)}

\* the nodes of each clique the intermediate node is joined to
BridgeLinksA == {{"a1"}, {"a1", "a2"}}

BridgeLinksB == {{"b1"}, {"b1", "b2"}}

\* the graph of the scenario: the nodes in the order they were added, each
\* with its name, and the edges of the two cliques and of the links
BridgeGraph(la, lb) ==
    LET edges == CliquePairs(CliqueA) \cup CliquePairs(CliqueB)
                     \cup {<<BridgeNode, n>> : n \in la \cup lb}
                     \cup {<<n, BridgeNode>> : n \in la \cup lb}
    IN  [order |-> BridgeOrder,
         node  |-> [n \in Range(BridgeOrder) |-> [name |-> n]],
         adj   |-> [n \in Range(BridgeOrder) |->
                       [m \in {x \in Range(BridgeOrder) : <<n, x>> \in edges} |->
                           [trips |-> 1]]]]

BridgeGraphs == {BridgeGraph(la, lb) : la \in BridgeLinksA, lb \in BridgeLinksB}

\* the partitions aligned with the cliques, the intermediate node in either
AlignedPartitions ==
    {[n \in Range(BridgeOrder) |->
         IF n \in Range(CliqueA) THEN 0
         ELSE IF n \in Range(CliqueB) THEN 1
         ELSE c] : c \in {0, 1}}

\* the node ids of critical_nodes: the intermediate node, a node of a clique
\* and an id that is no node of the graph
BridgeCriticalLists ==
    UNION {[1..n -> {BridgeNode, "a1", "Z"} \X Scores] : n \in 0..MaxCritical}

\* CriticalNodeAnalyzer.__init__ on the scenario, and the arguments of the
\* assess_vulnerability calls to come
InitBridge ==
    /\ analyzer_graph \in BridgeGraphs
    /\ partition \in AlignedPartitions
    /\ critical_nodes \in BridgeCriticalLists
    /\ max_workers \in WorkerCounts
    /\ seq_result = NoResult
    /\ par_result = NoResult
    /\ par_pc = "idle"
    /\ baseline = NoAttrs
    /\ futures = <<>>
    /\ completed = <<>>
    /\ NoBuilder
    /\ NoIdentify
    /\ NoDetector
    /\ NoMetrics

SpecBridge == InitBridge /\ [][NextAnalyzer]_vars

\* CriticalNodeAnalyzer.__init__ on the scenario, before its
\* identify_critical_nodes call
InitBridgeIdentify ==
    /\ analyzer_graph \in BridgeGraphs
    /\ partition \in AlignedPartitions
    /\ NoAssess
    /\ NoIdentify
    /\ NoBuilder
    /\ NoDetector
    /\ NoMetrics

\* the sample_size arguments: None, and a sample of one source node
BridgeSamples == {{}, {1}}

\* identify_critical_nodes(method='betweenness', top_n, sample_size)
NextBridgeIdentify ==
    \E sample_size \in BridgeSamples :
        IdentifyCriticalNodes("betweenness", sample_size)

SpecBridgeIdentify == InitBridgeIdentify /\ [][NextBridgeIdentify]_vars

(***************************************************************************)
(* _calculate_network_metrics_fast called on its own: on a graph, or on    *)
(* the restricted view of a graph that hides one node.                     *)
(***************************************************************************)
MaxMetricCalls == 2

\* a graph and the nodes a caller hides from it: none, or one of its nodes
InitMetrics ==
    /\ m_graph \in CatalogueGraphs
    /\ m_hidden \in {{}} \cup {{n} : n \in DOMAIN m_graph.node}
    /\ m_calls = <<>>
    /\ NoBuilder
    /\ analyzer_graph = EmptyGraph
    /\ partition = NoAttrs
    /\ NoAssess
    /\ NoIdentify
    /\ NoDetector

\* _calculate_network_metrics_fast(G) returning its metrics; G is the graph
\* or its restricted view, which the function only reads
CalculateMetrics ==
    /\ Len(m_calls) < MaxMetricCalls
    /\ \E metrics \in _calculate_network_metrics_fast(
                          restricted_view(m_graph, m_hidden).view) :
         m_calls' = Append(m_calls, [raised |-> "none", metrics |-> metrics])
    /\ m_graph' = restricted_view(m_graph, m_hidden).base
    /\ UNCHANGED <<m_hidden, bvars, avars, ivars, dvars>>

NextMetrics == CalculateMetrics

SpecMetrics == InitMetrics /\ [][NextMetrics]_vars

(***************************************************************************)
(* Properties of build_graph.                                              *)
(***************************************************************************)
\* the first build_graph call of a builder has returned its graph
FreshBuild == b_calls = 1 /\ b_result = "graph"

TableStopIds == {gtfs_data["stops"][i].stop_id : i \in DOMAIN gtfs_data["stops"]}

\* the stop sequence of a trip, by ascending stop_sequence
StopSequence(trip_id) ==
    LET rows == {gtfs_data["stop_times"][i] : i \in DOMAIN gtfs_data["stop_times"]}
        mine == {r \in rows : r.trip_id = trip_id}
    IN  [k \in 1..Cardinality(mine) |->
            (CHOOSE r \in mine :
                Cardinality({q \in mine : q.stop_sequence < r.stop_sequence}) = k - 1).stop_id]

\* the trip has a row in trips whose route has a row in routes
KnownRoute(trip_id) ==
    \E i \in DOMAIN gtfs_data["trips"], j \in DOMAIN gtfs_data["routes"] :
        /\ gtfs_data["trips"][i].trip_id = trip_id
        /\ gtfs_data["trips"][i].route_id = gtfs_data["routes"][j].route_id

ShortTrip(trip_id) == Len(StopSequence(trip_id)) <= 1

\* positions (i, j): the i-th processed trip traverses {a, b} between its
\* j-th and (j+1)-th stop
Traversals(a, b) ==
    {<<i, j>> \in (DOMAIN b_trip_ids) \X (1..MaxStopTimeRows) :
        /\ KnownRoute(b_trip_ids[i])
        /\ j < Len(StopSequence(b_trip_ids[i]))
        /\ {StopSequence(b_trip_ids[i])[j], StopSequence(b_trip_ids[i])[j + 1]} = {a, b}}

\* C5: after build_graph on a fresh builder there is one edge per unordered
\* pair of stops (the same attribute record in both directions), it exists
\* exactly when some processed trip traverses the pair, and its trips
\* attribute is the number of such traversals, in either direction.
C5_WeightAccumulation ==
    FreshBuild =>
        \A a, b \in TableStopIds :
            LET n == Cardinality(Traversals(a, b))
            IN  /\ has_edge(graph, a, b) <=> n > 0
                /\ has_edge(graph, a, b) <=> has_edge(graph, b, a)
                /\ n > 0 => /\ graph.adj[a][b] = graph.adj[b][a]
                            /\ graph.adj[a][b].trips = n

\* two processed trips both traverse A then B, and the edge has trips = 2
C5_Witness ==
    /\ FreshBuild
    /\ Len(b_trip_ids) = 2
    /\ \A i \in 1..2 : /\ KnownRoute(b_trip_ids[i])
                       /\ StopSequence(b_trip_ids[i]) = <<"A", "B">>
    /\ has_edge(graph, "A", "B")
    /\ graph.adj["A"]["B"].trips = 2

\* C6: the graph build_graph returns has no self-loop.
C6_NoSelfLoops ==
    b_result = "graph" => \A n \in DOMAIN graph.node : ~has_edge(graph, n, n)

\* C7: every node of the graph build_graph returns has an edge to another
\* stop.
C7_NoIsolatedNodes ==
    b_result = "graph" =>
        \A n \in DOMAIN graph.node :
            \E m \in DOMAIN graph.node : m # n /\ has_edge(graph, n, m)

\* the consecutive pairs of a trip whose two stops are both in the stops table
ValidPairs(trip_id) ==
    {<<StopSequence(trip_id)[j], StopSequence(trip_id)[j + 1]>> :
        j \in {k \in 1..MaxStopTimeRows :
                 /\ k < Len(StopSequence(trip_id))
                 /\ StopSequence(trip_id)[k] \in TableStopIds
                 /\ StopSequence(trip_id)[k + 1] \in TableStopIds}}

\* C8: a consecutive pair with a stop id that is not in the stops table adds
\* no node and no edge, the other pairs of the trip are connected: every node
\* and every edge end point is a stop of the stops table, and every pair of
\* known stops of a processed trip is an edge.
C8_UnknownStopsSkipped ==
    b_result = "graph" =>
        /\ DOMAIN graph.node \subseteq TableStopIds
        /\ \A n \in DOMAIN graph.adj : DOMAIN graph.adj[n] \subseteq TableStopIds
        /\ \A i \in DOMAIN b_trip_ids :
              KnownRoute(b_trip_ids[i]) =>
                  \A p \in ValidPairs(b_trip_ids[i]) : has_edge(graph, p[1], p[2])

\* a processed trip names a stop the stops table lacks next to a known stop,
\* and goes on to a pair of known stops, which is connected
C8_Witness ==
    /\ b_result = "graph"
    /\ \E i \in DOMAIN b_trip_ids :
          LET s == StopSequence(b_trip_ids[i])
          IN  /\ KnownRoute(b_trip_ids[i])
              /\ Len(s) = 3
              /\ s[1] \notin TableStopIds
              /\ s[2] \in TableStopIds /\ s[3] \in TableStopIds /\ s[2] # s[3]
              /\ has_edge(graph, s[2], s[3])
              /\ ~has_node(graph, s[1])

\* one of the four required tables is missing or has no rows
MissingOrEmptyTable ==
    \E i \in DOMAIN RequiredTables :
        \/ RequiredTables[i] \notin DOMAIN gtfs_data
        \/ gtfs_data[RequiredTables[i]] = <<>>

\* C9: build_graph does not return a graph when a required table is missing
\* or has no rows.
C9_ErrorOnMissingOrEmptyTable ==
    (b_calls > 0 /\ MissingOrEmptyTable) => b_result # "graph"

\* C10: a selected trip with zero or one stop-time rows adds no edge and
\* raises no error, and the trips after it are processed: with all tables
\* present the call returns a graph, no edge of a fresh build was created by
\* a short trip, and every pair of known stops of a processed trip that
\* follows a short trip is an edge.
C10_ShortTripsSkipped ==
    /\ (b_calls > 0 /\ DOMAIN gtfs_data = Range(RequiredTables)) => b_result = "graph"
    /\ FreshBuild =>
          /\ \A u \in DOMAIN graph.adj : \A v \in DOMAIN graph.adj[u] :
                ~ShortTrip(graph.adj[u][v].trip_id)
          /\ \A i, j \in DOMAIN b_trip_ids :
                (i < j /\ ShortTrip(b_trip_ids[i]) /\ KnownRoute(b_trip_ids[j])) =>
                    \A p \in ValidPairs(b_trip_ids[j]) : has_edge(graph, p[1], p[2])

\* a short trip precedes a trip of two known stops, which is connected
C10_Witness ==
    /\ FreshBuild
    /\ Len(b_trip_ids) = 2
    /\ ShortTrip(b_trip_ids[1])
    /\ KnownRoute(b_trip_ids[2])
    /\ ValidPairs(b_trip_ids[2]) # {}
    /\ \A p \in ValidPairs(b_trip_ids[2]) : has_edge(graph, p[1], p[2])

(***************************************************************************)
(* Properties of assess_vulnerability.                                     *)
(***************************************************************************)
InGraph(i) == has_node(analyzer_graph, critical_nodes[i][1])

AllInGraph == \A i \in DOMAIN critical_nodes : InGraph(i)

SequentialCallOver == seq_result.status # "none"

ParallelCallOver == par_pc = "finished"

\* the call returned one record per critical node, in the order of the list
InInputOrder(r) ==
    /\ r.status = "returned"
    /\ Len(r.results) = Len(critical_nodes)
    /\ \A i \in DOMAIN critical_nodes : r.results[i].node_id = critical_nodes[i][1]

\* C1: for a critical_nodes list whose node ids are all in the graph,
\* assess_vulnerability returns a list of the same length whose i-th record
\* is that of the i-th node, with parallel=False and with parallel=True in
\* whatever order the workers finish.
C1_ResultsInInputOrder ==
    AllInGraph =>
        /\ SequentialCallOver => InInputOrder(seq_result)
        /\ ParallelCallOver => InInputOrder(par_result)

\* two different nodes were assessed in parallel, the second task finished
\* first, and the call has returned
C1_Witness ==
    /\ AllInGraph
    /\ ParallelCallOver
    /\ par_result.status = "returned"
    /\ completed = <<2, 1>>
    /\ critical_nodes[1][1] # critical_nodes[2][1]

\* exactly one entry of critical_nodes names a node that is not in the graph
OneNodeMissing ==
    /\ Cardinality({i \in DOMAIN critical_nodes : ~InGraph(i)}) = 1
    /\ \E i \in DOMAIN critical_nodes : InGraph(i)

\* the call returned and the records of all the nodes of the graph are there
HasOtherRecords(r) ==
    /\ r.status = "returned"
    /\ \A i \in DOMAIN critical_nodes :
          InGraph(i) =>
              \E k \in DOMAIN r.results : r.results[k].node_id = critical_nodes[i][1]

\* C2: when one node id of critical_nodes is not in the graph (and another
\* is), the call still returns the records of all the other nodes, in either
\* mode.
C2_FailureIsolated ==
    OneNodeMissing =>
        /\ SequentialCallOver => HasOtherRecords(seq_result)
        /\ ParallelCallOver => HasOtherRecords(par_result)

\* C3: no step of assess_vulnerability, in either mode, changes the
\* analyzer's graph or partition.
C3_GraphUntouched ==
    [][analyzer_graph' = analyzer_graph /\ partition' = partition]_vars

\* both modes have assessed nodes of the graph and returned their records
C3_Witness ==
    /\ seq_result.status = "returned"
    /\ par_result.status = "returned"
    /\ Len(seq_result.results) = MaxCritical
    /\ DOMAIN partition # {}
    /\ number_of_edges(analyzer_graph) > 0

\* C4: on the same graph, partition and critical_nodes (more than one node,
\* so that the worker pool runs), the records of the parallel call and of
\* the sequential call are equal field by field, position by position.
C4_ModesAgree ==
    (/\ Len(critical_nodes) > 1
     /\ seq_result.status = "returned"
     /\ par_result.status = "returned") =>
        seq_result.results = par_result.results

(***************************************************************************)
(* Properties of the sampling of trips.                                    *)
(***************************************************************************)
TripsTableIds ==
    [j \in DOMAIN gtfs_data["trips"] |-> gtfs_data["trips"][j].trip_id]

\* the last call was build_graph(sample_size=k) with k under the number of trips
SampledCall ==
    /\ b_result = "graph"
    /\ \E k \in b_sample_size : k < Len(gtfs_data["trips"])

\* C11: build_graph(sample_size=k) with k smaller than the number of trips
\* processes exactly k trips, all different, each of the trips table; with
\* sample_size None or k at least the number of trips it processes every trip
\* of the table, once each.
C11_SampleSize ==
    b_result = "graph" =>
        IF SampledCall
        THEN /\ \A k \in b_sample_size : Len(b_trip_ids) = k
             /\ \A a, b \in DOMAIN b_trip_ids : a # b => b_trip_ids[a] # b_trip_ids[b]
             /\ Range(b_trip_ids) \subseteq Range(TripsTableIds)
        ELSE /\ Len(b_trip_ids) = Len(TripsTableIds)
             /\ Range(b_trip_ids) = Range(TripsTableIds)

\* two of three trips were sampled, and a build over all three came before
C11_Witness ==
    /\ SampledCall
    /\ b_calls = 2
    /\ b_sample_size = {2}
    /\ Len(gtfs_data["trips"]) = 3
    /\ number_of_edges(graph) = 2

(***************************************************************************)
(* Properties of CommunityDetector.                                        *)
(***************************************************************************)
\* the last call on the detector was this method, and it returned
LastReturned(op) == d_result.op = op /\ d_result.status = "returned"

\* the sum of f[x].size over the x of S
RECURSIVE SumOfSizes(_, _)
SumOfSizes(f, S) ==
    IF S = {} THEN 0
    ELSE LET x == CHOOSE y \in S : TRUE
         IN  f[x].size + SumOfSizes(f, S \ {x})

\* C12: once detect_communities_louvain has returned, partition has a
\* community for every node of the graph, and the keys of the communities
\* map that analyze_communities returns are exactly the community ids the
\* partition uses.
C12_TotalPartition ==
    d_modularity # None =>
        /\ DOMAIN d_partition[1] = DOMAIN d_graph.node
        /\ LastReturned("analyze") =>
              DOMAIN d_result.results.communities = Range(d_partition[1])

\* analyze_communities has returned for a graph of four nodes in two
\* communities, one of them a single node
C12_Witness ==
    /\ LastReturned("analyze")
    /\ number_of_nodes(d_graph) = 4
    /\ Cardinality(DOMAIN d_result.results.communities) = 2
    /\ \E c \in DOMAIN d_result.results.communities :
          d_result.results.communities[c].size = 1

\* C13: the size fields of the communities that analyze_communities returns
\* add up to the number of nodes of the graph, and num_communities is the
\* number of different community ids in the partition.
C13_SizeConservation ==
    LastReturned("analyze") =>
        /\ SumOfSizes(d_result.results.communities,
                      DOMAIN d_result.results.communities) = number_of_nodes(d_graph)
        /\ d_result.results.num_communities = Cardinality(Range(d_partition[1]))

\* analyze_communities has returned two communities of two nodes each
C13_Witness ==
    /\ LastReturned("analyze")
    /\ d_result.results.num_communities = 2
    /\ \A c \in DOMAIN d_result.results.communities :
          d_result.results.communities[c].size = 2

\* every two different nodes of the graph are adjacent
IsClique(G) ==
    \A u, v \in DOMAIN G.node : u # v => has_edge(G, u, v)

\* C14: detect_communities_louvain on a graph with at least one node yields
\* a modularity between -1 and 1, and on a graph that is one clique it
\* yields a single community holding every node.
C14_ModularityBound ==
    (d_result.op = "detect" /\ number_of_nodes(d_graph) > 0) =>
        /\ d_result.status = "returned"
        /\ d_modularity # None
        /\ ~RatLess(d_modularity[1], RatInt(-1))
        /\ ~RatLess(RatInt(1), d_modularity[1])
        /\ IsClique(d_graph) => Cardinality(Range(d_result.results)) = 1

\* C15: detect_communities_louvain on a graph of zero nodes ends with an
\* error; it does not return a partition.
C15_EmptyGraphFails ==
    (d_result.op = "detect" /\ number_of_nodes(d_graph) = 0) =>
        d_result.status = "ValueError"

\* detect_communities_louvain was called on the graph of zero nodes
C15_Witness ==
    /\ d_result.op = "detect"
    /\ number_of_nodes(d_graph) = 0
    /\ d_result.status # "returned"

(***************************************************************************)
(* Properties of identify_critical_nodes.                                  *)
(***************************************************************************)
\* the call identify_critical_nodes(method, ...) has returned
Identified(method) ==
    /\ i_args # None
    /\ i_args[1].method = method
    /\ i_result.status = "returned"

\* pair a comes before pair b: higher score, or equal score and lower node id
RanksBefore(a, b) ==
    \/ RatLess(b[2], a[2])
    \/ a[2] = b[2] /\ a[1] < b[1]

\* C16: identify_critical_nodes returns the first min(top_n, node count)
\* entries of the list of all (node, score) pairs in descending order of
\* score, pairs of equal score in ascending order of node id; with top_n
\* above the node count that is every node.  Stated for the degree method,
\* whose scores are exact.
C16_RankedByScoreThenId ==
    Identified("degree") =>
        LET all == Range(Items(analyzer_graph, degree_centrality(analyzer_graph)))
            res == i_result.results
        IN  /\ Len(res) = Min2(i_args[1].top_n, number_of_nodes(analyzer_graph))
            /\ Range(res) \subseteq all
            /\ \A i, j \in DOMAIN res : i < j => RanksBefore(res[i], res[j])
            /\ \A a \in Range(res) : \A b \in all \ Range(res) : RanksBefore(a, b)

\* C17: identify_critical_nodes with a method name that is none of
\* betweenness, degree, closeness, eigenvector and katz raises an error that
\* names the method, returns no list, and leaves the analyzer's graph and
\* partition as they were.
C17_UnknownMethodRaises ==
    [][(i_args' # i_args /\ i_args'[1].method \notin Methods) =>
            /\ i_result'.status =
                  "ValueError: Unknown centrality method: " \o i_args'[1].method
            /\ i_result'.results = <<>>
            /\ analyzer_graph' = analyzer_graph
            /\ partition' = partition]_vars

\* identify_critical_nodes was called with an unknown method on a graph with
\* nodes and a partition
C17_Witness ==
    /\ i_args # None
    /\ i_args[1].method \notin Methods
    /\ i_result.status # "none"
    /\ number_of_nodes(analyzer_graph) > 1
    /\ partition # NoAttrs

(***************************************************************************)
(* Properties of the vulnerability records.                                *)
(***************************************************************************)
\* the records the calls of assess_vulnerability have returned
ReturnedRecords == Range(seq_result.results) \cup Range(par_result.results)

\* the members of a community
CommunityMembers(comm) == {n \in DOMAIN partition : partition[n] = comm}

\* the communities, other than the node's own, that an edge joins to some
\* member of the node's community
AdjacentToCommunity(node_id) ==
    {partition[v] : v \in {x \in DOMAIN partition :
                             \E u \in CommunityMembers(partition[node_id]) :
                                 has_edge(analyzer_graph, u, x)}}
        \ {partition[node_id]}

\* the communities, other than the node's own, that hold a neighbour of the
\* node
AdjacentToNode(node_id) ==
    {partition[v] : v \in Neighbors(analyzer_graph, node_id)} \ {partition[node_id]}

\* C18 as stated: connected_communities is the number of communities that
\* an edge joins to the removed node's community, whichever member of that
\* community the edge touches.
C18_AdjacentToCommunity ==
    partition # NoAttrs =>
        \A r \in ReturnedRecords :
            r.connected_communities = Cardinality(AdjacentToCommunity(r.node_id))

\* C18, amended: connected_communities is the number of communities, other
\* than the removed node's own, that hold a neighbour of the removed node; a
\* community that only another member of the node's community is adjacent
\* to is not counted.
C18_AdjacentToNode ==
    partition # NoAttrs =>
        \A r \in ReturnedRecords :
            r.connected_communities = Cardinality(AdjacentToNode(r.node_id))

\* a record of a node without a neighbour in the other community, while
\* another member of its community has one
C18_Witness ==
    /\ partition # NoAttrs
    /\ \E r \in ReturnedRecords :
          /\ r.connected_communities = 0
          /\ Cardinality(AdjacentToCommunity(r.node_id)) = 1

\* the communities of C that no edge joins to a member, other than the node
\* itself, of the node's community
DirectlyCutOff(node_id) ==
    {c \in AdjacentToCommunity(node_id) :
        \A u \in CommunityMembers(partition[node_id]) \ {node_id} :
            \A v \in CommunityMembers(c) : ~has_edge(analyzer_graph, u, v)}

\* C19: disconnected_communities counts the communities of C that no edge of
\* the graph joins to a member, other than the removed node, of the node's
\* community; community_impact_score is disconnected_communities over
\* max(1, connected_communities); and 0 <= disconnected_communities <=
\* connected_communities.
C19_DirectAdjacency ==
    partition # NoAttrs =>
        \A r \in ReturnedRecords :
            /\ r.disconnected_communities = Cardinality(DirectlyCutOff(r.node_id))
            /\ r.community_impact_score[1] * Max2(1, r.connected_communities)
                  = r.disconnected_communities * r.community_impact_score[2]
            /\ 0 <= r.disconnected_communities
            /\ r.disconnected_communities <= r.connected_communities

\* a record of a node that is its community's only link to the other
\* community, although the community has another member
C19_Witness ==
    /\ partition # NoAttrs
    /\ \E r \in ReturnedRecords :
          /\ r.disconnected_communities = 1
          /\ r.connected_communities = 1
          /\ CommunityMembers(partition[r.node_id]) # {r.node_id}

ImpactKeys ==
    {"nodes_impact", "edges_impact", "density_impact", "largest_cc_size_impact",
     "largest_cc_ratio_impact", "avg_path_length_impact", "avg_clustering_impact"}

\* 100 x (1 - modified / baseline), 0 for a baseline of 0
PercentLost(baseline_value, modified_value) ==
    IF baseline_value[1] = 0 THEN RatInt(0)
    ELSE RatMul(RatInt(100),
                RatAdd(RatInt(1),
                       RatMul(RatInt(-1),
                              Rat(modified_value[1] * baseline_value[2],
                                  modified_value[2] * baseline_value[1]))))

\* the record's impacts are those of some baseline and some post-removal
\* metrics of the graph
ImpactsFollowFormula(r) ==
    \E b \in _calculate_network_metrics_fast(analyzer_graph) :
        \E m \in _calculate_network_metrics_fast(
                     remove_nodes_from(analyzer_graph, {r.node_id})) :
            /\ r.nodes_impact = PercentLost(b.nodes, m.nodes)
            /\ r.edges_impact = PercentLost(b.edges, m.edges)
            /\ r.density_impact = PercentLost(b.density, m.density)
            /\ r.largest_cc_size_impact = PercentLost(b.largest_cc_size, m.largest_cc_size)
            /\ r.largest_cc_ratio_impact = PercentLost(b.largest_cc_ratio, m.largest_cc_ratio)
            /\ r.avg_path_length_impact = PercentLost(b.avg_path_length, m.avg_path_length)
            /\ r.avg_clustering_impact = PercentLost(b.avg_clustering, m.avg_clustering)

\* C20: a vulnerability record has one <metric>_impact per baseline metric,
\* 100 x (1 - modified / baseline) for a baseline other than 0 and 0 for a
\* baseline of 0; so for a node of degree d in a graph of n nodes and m > 0
\* edges nodes_impact is 100 / n and edges_impact is 100 * d / m.
C20_ImpactFormula ==
    \A r \in ReturnedRecords :
        /\ ImpactKeys \subseteq DOMAIN r
        /\ ImpactsFollowFormula(r)
        /\ r.nodes_impact = Rat(100, number_of_nodes(analyzer_graph))
        /\ number_of_edges(analyzer_graph) > 0 =>
              r.edges_impact = Rat(100 * degree(analyzer_graph, r.node_id),
                                   number_of_edges(analyzer_graph))

\* a record of a node of degree 2 in a graph of four nodes and four edges
C20_Witness ==
    /\ number_of_edges(analyzer_graph) = 4
    /\ \E r \in ReturnedRecords :
          /\ degree(analyzer_graph, r.node_id) = 2
          /\ r.edges_impact = RatInt(50)
          /\ r.nodes_impact = RatInt(25)

(***************************************************************************)
(* Properties of the impact on the largest component.                      *)
(***************************************************************************)
\* every node of G can be reached from every other
IsConnected(G) == \A n \in DOMAIN G.node : ComponentOf(G, n) = DOMAIN G.node

\* the graph without one node
Without(node_id) == remove_nodes_from(analyzer_graph, {node_id})

\* C21: on a connected graph of at least three nodes the record of a node
\* whose removal disconnects the graph has largest_cc_ratio_impact > 0, and
\* the record of a node whose removal leaves the graph connected has
\* largest_cc_ratio_impact = 0.
C21_CutVertexImpact ==
    (number_of_nodes(analyzer_graph) >= 3 /\ IsConnected(analyzer_graph)) =>
        \A r \in ReturnedRecords :
            IF IsConnected(Without(r.node_id))
            THEN r.largest_cc_ratio_impact = RatInt(0)
            ELSE RatLess(RatInt(0), r.largest_cc_ratio_impact)

\* one call returned the record of a leaf and the record of the cut vertex
\* the leaf hangs on
C21_Witness ==
    /\ IsConnected(analyzer_graph)
    /\ seq_result.status = "returned"
    /\ \E i, j \in DOMAIN seq_result.results :
          LET leaf == seq_result.results[i]
              cut  == seq_result.results[j]
          IN  /\ degree(analyzer_graph, leaf.node_id) = 1
              /\ has_edge(analyzer_graph, leaf.node_id, cut.node_id)
              /\ ~IsConnected(Without(cut.node_id))
              /\ leaf.largest_cc_ratio_impact = RatInt(0)
              /\ RatLess(RatInt(0), cut.largest_cc_ratio_impact)

\* the analyzer holds a graph of the bridge-node scenario and a partition
\* aligned with its cliques
BridgeScenario ==
    /\ analyzer_graph \in BridgeGraphs
    /\ partition \in AlignedPartitions

\* C22: for two cliques of four nodes joined only through one intermediate
\* node, and the partition into the two cliques with the intermediate node
\* in either of them, the record of the intermediate node has
\* connected_communities = 1 and disconnected_communities = 1.
C22_BridgeCommunities ==
    BridgeScenario =>
        \A r \in ReturnedRecords :
            r.node_id = BridgeNode =>
                /\ r.connected_communities = 1
                /\ r.disconnected_communities = 1

\* both modes have returned the record of the intermediate node, which the
\* partition puts in the second clique
C22_Witness ==
    /\ BridgeScenario
    /\ partition[BridgeNode] = 1
    /\ \E r \in Range(seq_result.results) : r.node_id = BridgeNode
    /\ \E r \in Range(par_result.results) : r.node_id = BridgeNode

(***************************************************************************)
(* Properties of the ranking in the bridge-node scenario.                  *)
(***************************************************************************)
\* the call computed the betweenness from every node, without sampling
ExactBetweenness ==
    AnalyzerSample(analyzer_graph, i_args[1].sample_size) = {}

\* the returned list starts with the intermediate node, whose score is above
\* the next one's
BridgeNodeFirst ==
    LET res == i_result.results
    IN  /\ res[1][1] = BridgeNode
        /\ Len(res) >= 2 => RatLess(res[2][2], res[1][2])

\* C23 as stated: in the bridge-node scenario identify_critical_nodes with
\* method betweenness returns the intermediate node first, with a score
\* strictly above every other node's, whatever sample_size it is given.
C23_BridgeRankedFirst ==
    (BridgeScenario /\ Identified("betweenness") /\ i_args[1].top_n >= 1) =>
        BridgeNodeFirst

\* C23, amended: in the bridge-node scenario identify_critical_nodes with
\* method betweenness and no sample of source nodes (sample_size None or 0,
\* the graph having nine nodes) returns the intermediate node first, with a
\* score strictly above the betweenness of every other node.
C23_BridgeRankedFirstExact ==
    (BridgeScenario /\ Identified("betweenness") /\ i_args[1].top_n >= 1
        /\ ExactBetweenness) =>
        /\ BridgeNodeFirst
        /\ \A n \in DOMAIN analyzer_graph.node \ {BridgeNode} :
              RatLess(BetweennessFrom(analyzer_graph, DOMAIN analyzer_graph.node, {})[n],
                      i_result.results[1][2])

\* the exact call has returned the intermediate node ahead of a node of a
\* clique that it is joined to
C23_Witness ==
    /\ BridgeScenario
    /\ Identified("betweenness")
    /\ ExactBetweenness
    /\ Len(i_result.results) >= 2
    /\ i_result.results[1][1] = BridgeNode
    /\ has_edge(analyzer_graph, BridgeNode, i_result.results[2][1])

(***************************************************************************)
(* Properties of _calculate_network_metrics_fast.                          *)
(***************************************************************************)
\* the graph the metrics are computed on
MetricsGraph == remove_nodes_from(m_graph, m_hidden)

\* C24: two calls of _calculate_network_metrics_fast on the same unmodified
\* graph return the same value for every metric, and no call changes the
\* graph.
C24_MetricsRepeatable ==
    /\ [](Len(m_calls) >= 2 => m_calls[1] = m_calls[2])
    /\ [][m_graph' = m_graph /\ m_hidden' = m_hidden]_vars

MetricKeys ==
    {"nodes", "edges", "density", "largest_cc_size", "largest_cc_ratio",
     "avg_path_length", "avg_clustering"}

\* the sets of nodes that are a connected component of the largest size
LargestComponents(G) ==
    {ComponentOf(G, n) : n \in {x \in DOMAIN G.node :
        \A y \in DOMAIN G.node :
            Cardinality(ComponentOf(G, y)) <= Cardinality(ComponentOf(G, x))}}

\* the sum of the distances between the nodes of a component, over the
\* ordered pairs of different nodes
MeanDistance(G, comp) ==
    IF Cardinality(comp) = 1 THEN RatInt(0)
    ELSE RatMul(RatSum([i \in DOMAIN G.order |->
                           IF G.order[i] \in comp
                           THEN RatInt(SumSeq([j \in DOMAIN G.order |->
                                    IF G.order[j] \in comp
                                    THEN Distances(G, G.order[i])[G.order[j]] ELSE 0]))
                           ELSE RatInt(0)]),
                Rat(1, Cardinality(comp) * (Cardinality(comp) - 1)))

\* the metric set of a graph without nodes, and of a graph with nodes: the
\* path length is that of a largest component, whose share of the nodes is
\* reported
FullMetricSet(G, m) ==
    /\ DOMAIN m = MetricKeys
    /\ m.nodes = RatInt(number_of_nodes(G))
    /\ m.edges = RatInt(number_of_edges(G))
    /\ IF DOMAIN G.node = {}
       THEN /\ m.largest_cc_size = RatInt(0)
            /\ m.largest_cc_ratio = RatInt(0)
            /\ m.avg_path_length = RatInt(0)
            /\ m.avg_clustering = RatInt(0)
       ELSE \E comp \in LargestComponents(G) :
              /\ m.largest_cc_size = RatInt(Cardinality(comp))
              /\ m.largest_cc_ratio = Rat(Cardinality(comp), number_of_nodes(G))
              /\ m.avg_path_length = MeanDistance(G, comp)
              /\ ~RatLess(m.avg_clustering, RatInt(0))
              /\ ~RatLess(RatInt(1), m.avg_clustering)

\* C25: _calculate_network_metrics_fast returns the full metric set without
\* raising for every graph, a graph without edges, a graph of one node and
\* the empty view of a graph whose only node is hidden included (the four
\* component metrics are 0 there); the path length is that of the largest
\* connected component and largest_cc_ratio is its share of the nodes.
C25_MetricsNeverRaise ==
    \A k \in DOMAIN m_calls :
        /\ m_calls[k].raised = "none"
        /\ FullMetricSet(MetricsGraph, m_calls[k].metrics)

\* the metrics have been computed on the empty view of a graph whose only
\* node is hidden
C25_Witness ==
    /\ number_of_nodes(m_graph) = 1
    /\ m_hidden = DOMAIN m_graph.node
    /\ m_calls # <<>>
    /\ m_calls[1].metrics.largest_cc_ratio = RatInt(0)

(***************************************************************************)
(* Properties of the worker pool.                                          *)
(***************************************************************************)
\* the tasks that have been started
Started == {i \in DOMAIN futures : futures[i].state \in {"running", "done", "failed"}}

\* one task per critical node, each finishing at most once and assessing its
\* own node; no more than max_workers of them running; the baseline in hand
\* before the first one starts
PoolInvariant ==
    /\ par_pc # "idle" /\ Len(critical_nodes) > 1 =>
          /\ DOMAIN futures = DOMAIN critical_nodes
          /\ baseline \in _calculate_network_metrics_fast(analyzer_graph)
    /\ Cardinality(Running) <= max_workers
    /\ \A a, b \in DOMAIN completed : a # b => completed[a] # completed[b]
    /\ Range(completed) = {i \in DOMAIN futures : futures[i].state \in {"done", "failed"}}
    /\ \A i \in DOMAIN futures :
          futures[i].state = "done" => futures[i].record.node_id = critical_nodes[i][1]
    /\ Started # {} => baseline # NoAttrs
    /\ ~(Len(critical_nodes) > 1) => futures = <<>>

\* a step leaves the baseline of the tasks and every finished task as they
\* are, and a call with parallel false submits no task
PoolStep ==
    /\ par_pc # "idle" => baseline' = baseline
    /\ \A i \in DOMAIN futures :
          futures[i].state \in {"done", "failed", "cancelled"} => futures'[i] = futures[i]
    /\ seq_result' # seq_result => futures' = futures /\ baseline' = baseline

\* C26: with parallel true and more than one critical node every critical
\* node is assessed by exactly one worker task, at most max_workers tasks
\* run at the same time, and the baseline metrics are computed once, before
\* any task starts, and reach every task unchanged; with one node or
\* parallel false no task is submitted and the caller does the work itself.
C26_BoundedPool == []PoolInvariant /\ [][PoolStep]_vars

\* the tasks of two different nodes run at the same time in a pool of two
\* workers
C26_Witness ==
    /\ max_workers = 2
    /\ Cardinality(Running) = 2
    /\ critical_nodes[1][1] # critical_nodes[2][1]
    /\ baseline # NoAttrs

(***************************************************************************)
(* Properties of the detector's state.                                     *)
(***************************************************************************)
\* no detect_communities_louvain call has returned on this detector
NotYetDetected == d_community_nodes = None \/ d_modularity = None

\* C27: analyze_communities on a detector whose detect_communities_louvain
\* has not yet succeeded raises ValueError (communities have not been
\* detected yet) and leaves partition, community_nodes and modularity unset.
C27_AnalyzeBeforeDetect ==
    [][(NotYetDetected /\ d_result'.op = "analyze") =>
            /\ d_result'.status = "ValueError"
            /\ d_partition' = None
            /\ d_community_nodes' = None
            /\ d_modularity' = None]_vars

\* C28: in every reachable state of a detector partition, community_nodes
\* and modularity are all unset or all set, also after a
\* detect_communities_louvain call that raised.
C28_AllSetOrAllUnset ==
    \/ d_partition = None /\ d_community_nodes = None /\ d_modularity = None
    \/ d_partition # None /\ d_community_nodes # None /\ d_modularity # None

(***************************************************************************)
(* Properties of a second build_graph call.                                *)
(***************************************************************************)
\* build_graph() returns for the second time on a builder whose first
\* build_graph() returned too, both calls taking all the trips
SecondFullBuild ==
    /\ b_calls = 1 /\ b_result = "graph" /\ b_sample_size = {}
    /\ b_calls' = 2 /\ b_result' = "graph" /\ b_sample_size' = {}

\* C29: a second build_graph call on the same builder, with the same tables
\* and all trips, returns a graph of the same nodes, edges and per-edge
\* trips counts as the first call, and leaves the graph the first call
\* returned, which its consumer holds, as it was.
C29_SecondBuildSame ==
    [][SecondFullBuild =>
          /\ DOMAIN graph'.node = DOMAIN graph.node
          /\ EdgeSet(graph') = EdgeSet(graph)
          /\ \A u \in DOMAIN graph.node : \A v \in Neighbors(graph, u) :
                graph'.adj[u][v].trips = graph.adj[u][v].trips]_vars

(***************************************************************************)
(* Properties of the betweenness sample.                                   *)
(***************************************************************************)
\* the k that the last identify_critical_nodes call handed to
\* nx.betweenness_centrality ({}: no k, the exact computation)
UsedSample == AnalyzerSample(analyzer_graph, i_args[1].sample_size)

\* C30: for method betweenness the number k of sampled source nodes never
\* exceeds the node count of the graph, whatever sample_size is given;
\* source nodes are sampled exactly when a sample_size is given or the graph
\* has more than 1000 nodes, and without a sample_size k is 500, or the node
\* count if that is smaller.
C30_SampleWithinNodeCount ==
    (i_args # None /\ i_args[1].method = "betweenness") =>
        /\ \A k \in UsedSample : k <= number_of_nodes(analyzer_graph)
        /\ UsedSample # {} <=>
              (\/ i_args[1].sample_size # {}
               \/ number_of_nodes(analyzer_graph) > LargeGraphNodes)
        /\ (i_args[1].sample_size = {} /\ UsedSample # {}) =>
              UsedSample = {Min2(LargeGraphSample, number_of_nodes(analyzer_graph))}

====
